---------------------------- MODULE Spec2Model ----------------------------
(***************************************************************************)
(* Model of the provider abstraction layer of smix:                        *)
(*   - the caching provider factory (internal/providers/factory.go),       *)
(*   - the retry engine (internal/llm/retry.go),                           *)
(*   - the providers' Generate (internal/llm/claude, internal/llm/gemini), *)
(*   - the configuration resolver (internal/config),                       *)
(*   - the launch of an interactive session (internal/pr, internal/llm),   *)
(*   - the provider errors (internal/llm/errors.go).                       *)
(* Each component has its own specification over its own variables; the    *)
(* variables of the other components stay unchanged.                       *)
(***************************************************************************)
EXTENDS Integers, Sequences, FiniteSets, TLC

(***************************************************************************)
(* Bounds of the model                                                     *)
(***************************************************************************)
\* number of goroutines that call GetProvider on the one factory
NumGoroutines == 2
\* total number of GetProvider calls started in one behaviour
MaxCalls == 2
\* number of changes of the environment (PATH, API-key variable) in one behaviour
MaxEnvChanges == 1

Goroutines == 1..NumGoroutines

(***************************************************************************)
(* Error values.  A Go error is modelled by its Unwrap chain: a sequence   *)
(* of links, outermost first; the nil error is the empty chain.            *)
(***************************************************************************)
NilErr == << >>

ErrLink(type, provider, msg) == [type |-> type, provider |-> provider, msg |-> msg]

\* errors.New(msg) / fmt.Errorf without %w
ErrorString(msg) == << ErrLink("errorString", "", msg) >>

\* fmt.Errorf("...: %w", inner)
WrapError(msg, inner) == << ErrLink("wrapError", "", msg) >> \o inner

\* mutant: Unwrap returns nil, the error wraps nothing
UnwrapNothing(e) == NilErr

\* (*ProviderError).Unwrap and (*fmt.wrapError).Unwrap: the wrapped error
Unwrap(e) == IF e = NilErr THEN NilErr ELSE Tail(e)

\* errors.Is(e, target) for comparable targets: some link of the chain is target
ErrorsIs(e, target) ==
    /\ target # NilErr
    /\ \E i \in 1..Len(e) : SubSeq(e, i, Len(e)) = target

\* err.(*llm.ProviderError): the dynamic type of the outermost error
IsProviderError(e) == e # NilErr /\ Head(e).type = "ProviderError"

ErrProviderNotAvailable(provider, inner) ==
    << ErrLink("ProviderError", provider, "provider not available") >> \o inner

ErrAuthenticationFailed(provider, inner) ==
    << ErrLink("ProviderError", provider, "authentication failed for provider") >> \o inner

ErrRateLimitExceeded(provider, inner) ==
    << ErrLink("ProviderError", provider, "rate limit exceeded for provider") >> \o inner

ErrModelNotFound(model, provider, inner) ==
    << ErrLink("ProviderError", provider, "model '" \o model \o "' not found for provider") >>
    \o inner

(***************************************************************************)
(* Provider factory                                                        *)
(***************************************************************************)
ProviderClaude == "claude"
ProviderGemini == "gemini"
\* the names callers pass: the two backends and one that is none of them
ProviderNames == {ProviderClaude, ProviderGemini, "unknown"}

\* the nil llm.Provider, and the llm.Provider that holds a nil *Provider (what
\* assigning a failed constructor's first result to an interface variable gives);
\* the instances proper are numbered from 2
NilProvider == 0
NilPointer == 1

VARIABLES
    cache,      \* Factory.cache: name -> instance (NilProvider: no entry)
    readers,    \* Factory.mu: goroutines holding the read lock
    writer,     \* Factory.mu: goroutine holding the exclusive lock, 0 if none
    pc,         \* position of each goroutine in GetProvider
    name,       \* argument of the call in progress
    provider,   \* local variable provider
    err,        \* local variable err
    ret,        \* values of the return statement executed, before deferred calls
    ranCtor,    \* the call in progress has run a backend constructor
    sawAvail,   \* ... and the backend was available when it ran
    result,     \* the call that returned last: its caller, argument and results
    env,        \* the process environment the constructors look at
    heap,       \* every Provider instance constructed so far
    returned,   \* <<name, instance>> of every successful return
    failed,     \* names for which a constructor failure was returned
    calls,      \* number of calls started
    envChanges  \* number of environment changes

factoryVars == << cache, readers, writer, pc, name, provider, err, ret, ranCtor, sawAvail,
                  result, env, heap, returned, failed, calls, envChanges >>

\* the retry engine's variables
VARIABLES
    rpc,        \* position in RetryWithBackoff
    attempt,    \* loop variable attempt
    delay,      \* local variable delay
    lastErr,    \* local variable lastErr
    fnResult,   \* local variable result
    fnErr,      \* local variable err of the loop body
    timer,      \* seconds left until the channel of time.After(delay) is ready
    ctxErr,     \* ctx.Err(): nil until the context is cancelled or expires
    retResult,  \* returned string
    retErr,     \* returned error
    callCount,  \* number of calls of fn
    slept,      \* seconds spent blocked in the select
    waits,      \* number of times the select was entered
    fnPlan,     \* the fn passed in: what its 1st, 2nd, ... call returns
    fnLog,      \* what each call of fn returned, in order
    cancelAt    \* where the engine was when the context was cancelled

retryVars == << rpc, attempt, delay, lastErr, fnResult, fnErr, timer, ctxErr,
                retResult, retErr, callCount, slept, waits, fnPlan, fnLog, cancelAt >>

\* the variables of one call of a provider's Generate
VARIABLES
    gpc,        \* position in Generate
    receiver,   \* the *Provider the method is called on
    opts,       \* the caller's option list
    backend,    \* how the backend behaves: its error when it fails, its output when not
    modelName,  \* local variable model / modelName: the model handed to the backend
    call,       \* what the last call of the backend gave
    backendLog, \* what each backend call did, in order: "ok" or "fail"
    genRet      \* the values Generate returned

generateVars == << gpc, receiver, opts, backend, modelName, call, backendLog, genRet >>

\* the variables of the configuration resolver and of the command that uses it
VARIABLES
    viper,        \* the configuration: for every key, whether it is set and its value
    commandName,  \* the command that resolves its configuration
    providerFlag, \* the value of the --provider flag, "" if not given
    modelFlag,    \* the value of the --model flag, "" if not given
    cfg,          \* the *ProviderConfig of the command
    resolved,     \* what ResolveProviderConfig returned
    cpc           \* how far the command is

configVars == << viper, commandName, providerFlag, modelFlag, cfg, resolved, cpc >>

\* the variables of one call of LaunchClaudeCode
VARIABLES
    lpc,          \* position in LaunchClaudeCode
    streams,      \* the *IOStreams passed in
    launched,     \* the dynamic type of the llm.Provider passed in
    session,      \* the other arguments: feedback file, target file, index, count, model
    received,     \* what the provider's RunInteractive was called with, in order
    checks,       \* what each check made so far returned, in order
    launchErr     \* the error LaunchClaudeCode returned

launchVars == << lpc, streams, launched, session, received, checks, launchErr >>

\* the variables of the construction and unwrapping of one ProviderError
VARIABLES
    epc,          \* constructed yet, unwrapped yet
    errorKind,    \* which constructor is called
    errorFor,     \* its provider argument
    underlying,   \* the err argument of the constructor
    built,        \* the error the constructor returned
    unwrapped     \* what Unwrap returned for it

errorVars == << epc, errorKind, errorFor, underlying, built, unwrapped >>

\* the variables of one call of the Gemini provider's RunInteractive
VARIABLES
    ipc,            \* position in RunInteractive
    runArgs,        \* its arguments: streams, prompt, opts
    cliPath,        \* p.cliPath is not ""
    cmd,            \* the command built, with what its standard streams are set to
    interactiveErr  \* the error RunInteractive returned

interactiveVars == << ipc, runArgs, cliPath, cmd, interactiveErr >>

\* the variables of the session loop of one call of ProcessReviews
VARIABLES
    ppc,            \* position in ProcessReviews
    filteredFiles,  \* the feedback files found, in the order of the listing
    fileIndex,      \* i, the index of the range loop
    sessionLog,     \* the calls of LaunchClaudeCode and their returns, in order
    printed,        \* the failures reported on standard output, in order
    processRet      \* whether ProcessReviews has returned, and with what error

reviewVars == << ppc, filteredFiles, fileIndex, sessionLog, printed, processRet >>

\* the variables of one call of resume.Run
VARIABLES
    upc,            \* position in Run
    platform,       \* CurrentPlatform: "nil" or a platform
    now,            \* SystemClock.Now(), in seconds
    targetTime,     \* the targetTime argument, in seconds
    windowFilter,   \* the windowFilter argument
    windowTitle,    \* the title of the active window
    waitDuration,   \* the local waitDuration, in seconds
    steps,          \* the calls made to the clock and the platform, with their results
    resumeRet       \* whether Run has returned, and with what error

resumeVars == << upc, platform, now, targetTime, windowFilter, windowTitle, waitDuration,
                 steps, resumeRet >>

vars == << factoryVars, retryVars, generateVars, configVars, launchVars, errorVars,
           interactiveVars, reviewVars, resumeVars >>

\* what a step of one component leaves alone: the variables of the others
nonFactoryVars == << retryVars, generateVars, configVars, launchVars, errorVars,
                     interactiveVars, reviewVars, resumeVars >>
nonRetryVars == << factoryVars, generateVars, configVars, launchVars, errorVars,
                   interactiveVars, reviewVars, resumeVars >>
nonGenerateVars == << factoryVars, configVars, launchVars, errorVars,
                      interactiveVars, reviewVars, resumeVars >>
nonConfigVars == << factoryVars, retryVars, generateVars, launchVars, errorVars,
                    interactiveVars, reviewVars, resumeVars >>
nonLaunchVars == << factoryVars, retryVars, generateVars, configVars, errorVars,
                    interactiveVars, reviewVars, resumeVars >>
nonErrorVars == << factoryVars, retryVars, generateVars, configVars, launchVars,
                   interactiveVars, reviewVars, resumeVars >>
nonInteractiveVars == << factoryVars, retryVars, generateVars, configVars, launchVars,
                         errorVars, reviewVars, resumeVars >>
nonReviewVars == << factoryVars, retryVars, generateVars, configVars, launchVars,
                    errorVars, interactiveVars, resumeVars >>
nonResumeVars == << factoryVars, retryVars, generateVars, configVars, launchVars,
                    errorVars, interactiveVars, reviewVars >>

\* no call has returned yet; no return statement has run yet
NoResult == [by |-> 0, name |-> "", prov |-> NilProvider, err |-> NilErr,
             ctor |-> FALSE, avail |-> FALSE]
NoReturn == [prov |-> NilProvider, err |-> NilErr]

\* exec.LookPath(file): found or exec.ErrNotFound
LookPathErr == ErrorString("executable file not found in $PATH")

\* a lookup that never finds an entry
CacheAlwaysMisses(c, n) == FALSE

\* _, ok := f.cache[name]
CacheHas(c, n) == c[n] # NilProvider

\* mutant: the constructed provider is not put in the cache
CacheStoreDropped(c, n, p) == c

\* f.cache[name] = provider
CacheStore(c, n, p) == [c EXCEPT ![n] = p]

\* claude.NewProvider(): the pair (instance fields or none, error)
ClaudeNewProvider(e) ==
    IF ~e.claudeCli
    THEN [ok |-> FALSE, client |-> FALSE, apiKey |-> "", cliPath |-> FALSE,
          err |-> ErrProviderNotAvailable(ProviderClaude, LookPathErr)]
    ELSE [ok |-> TRUE, client |-> FALSE, apiKey |-> "", cliPath |-> TRUE,
          err |-> NilErr]

\* gemini.NewProvider(ctx, apiKey)
GeminiNewProvider(e, apiKey) ==
    IF apiKey = "" /\ ~e.geminiCli
    THEN [ok |-> FALSE, client |-> FALSE, apiKey |-> "", cliPath |-> FALSE,
          err |-> ErrAuthenticationFailed(ProviderGemini,
                     ErrorString("API key is required or Gemini CLI must be installed"))]
    ELSE IF apiKey # "" /\ ~e.sdkOK
    THEN [ok |-> FALSE, client |-> FALSE, apiKey |-> "", cliPath |-> FALSE,
          err |-> ErrProviderNotAvailable(ProviderGemini, ErrorString("genai client"))]
    ELSE [ok |-> TRUE, client |-> (apiKey # ""), apiKey |-> apiKey,
          cliPath |-> e.geminiCli, err |-> NilErr]

\* mutant: the switch has no default case, any other name constructs gemini
IsKnownNameNoDefault(n) == TRUE

\* the switch of GetProvider: which constructor a name selects
IsKnownName(n) == n = ProviderClaude \/ n = ProviderGemini

NewProviderFor(n, e) ==
    IF n = ProviderClaude THEN ClaudeNewProvider(e)
    ELSE GeminiNewProvider(e, e.apiKey)

\* what the constructors need of the environment: claude its binary on the PATH;
\* gemini an API key the SDK accepts or, with no key set, its binary on the PATH
Available(n, e) ==
    \/ n = ProviderClaude /\ e.claudeCli
    \/ n = ProviderGemini /\ e.apiKey # "" /\ e.sdkOK
    \/ n = ProviderGemini /\ e.apiKey = "" /\ e.geminiCli

\* mutant: no re-check after the exclusive lock is taken
RecheckSkipped(c, n) == FALSE

\* line 40: the re-check, if provider, ok := f.cache[name]; ok
RecheckHit(c, n) == CacheHas(c, n)

\* mutant: the constructor's error is not looked at
ConstructorFailedIgnored(e) == FALSE

\* line 57: if err != nil
ConstructorFailed(e) == e # NilErr

\* the environment of a machine with no backend set up, and of one with both
NothingInstalled == [claudeCli |-> FALSE, geminiCli |-> FALSE, apiKey |-> "", sdkOK |-> FALSE]
AllInstalled == [claudeCli |-> TRUE, geminiCli |-> TRUE, apiKey |-> "key", sdkOK |-> TRUE]

FactoryInit ==
    /\ cache = [n \in ProviderNames |-> NilProvider]
    /\ readers = {}
    /\ writer = 0
    /\ pc = [g \in Goroutines |-> "idle"]
    /\ name = [g \in Goroutines |-> ""]
    /\ provider = [g \in Goroutines |-> NilProvider]
    /\ err = [g \in Goroutines |-> NilErr]
    /\ ret = [g \in Goroutines |-> NoReturn]
    /\ ranCtor = [g \in Goroutines |-> FALSE]
    /\ sawAvail = [g \in Goroutines |-> FALSE]
    /\ result = NoResult
    /\ env \in {NothingInstalled, AllInstalled}
    /\ heap = {}
    /\ returned = {}
    /\ failed = {}
    /\ calls = 0
    /\ envChanges = 0


\* the per-goroutine variable f with goroutine g's entry set to v
SetFor(g, f, v) == [f EXCEPT ![g] = v]

\* a caller starts GetProvider(ctx, n)
Call(g, n) ==
    /\ pc[g] = "idle"
    /\ calls < MaxCalls
    /\ calls' = calls + 1
    /\ pc' = SetFor(g, pc, "L30")
    /\ name' = SetFor(g, name, n)
    /\ UNCHANGED << cache, readers, writer, provider, err, ret, ranCtor, sawAvail, result,
                    env, heap, returned, failed, envChanges,
                    nonFactoryVars >>

\* line 30: f.mu.RLock()
RLock(g) ==
    /\ pc[g] = "L30"
    /\ writer = 0
    /\ readers' = readers \cup {g}
    /\ pc' = SetFor(g, pc, "L31")
    /\ UNCHANGED << cache, writer, name, provider, err, ret, ranCtor, sawAvail, result, env,
                    heap, returned, failed, calls, envChanges,
                    nonFactoryVars >>

\* line 31: if provider, ok := f.cache[name]; ok
FastCheck(g) ==
    /\ pc[g] = "L31"
    /\ IF CacheHas(cache, name[g])
       THEN /\ provider' = SetFor(g, provider, cache[name[g]])
            /\ pc' = SetFor(g, pc, "L32")
       ELSE /\ provider' = provider
            /\ pc' = SetFor(g, pc, "L35")
    /\ UNCHANGED << cache, readers, writer, name, err, ret, ranCtor, sawAvail, result, env,
                    heap, returned, failed, calls, envChanges,
                    nonFactoryVars >>

\* the call of goroutine g returns (p, e) to its caller; its locals are gone
Complete(g, p, e) ==
    /\ result' = [by |-> g, name |-> name[g], prov |-> p, err |-> e,
                  ctor |-> ranCtor[g], avail |-> sawAvail[g]]
    /\ returned' = IF e = NilErr THEN returned \cup {<< name[g], p >>} ELSE returned
    /\ failed' = IF e # NilErr /\ ranCtor[g] THEN failed \cup {name[g]} ELSE failed
    /\ pc' = SetFor(g, pc, "idle")
    /\ name' = SetFor(g, name, "")
    /\ provider' = SetFor(g, provider, NilProvider)
    /\ err' = SetFor(g, err, NilErr)
    /\ ret' = SetFor(g, ret, NoReturn)
    /\ ranCtor' = SetFor(g, ranCtor, FALSE)
    /\ sawAvail' = SetFor(g, sawAvail, FALSE)

\* lines 32-33: f.mu.RUnlock(); return provider, nil
FastReturn(g) ==
    /\ pc[g] = "L32"
    /\ readers' = readers \ {g}
    /\ Complete(g, provider[g], NilErr)
    /\ UNCHANGED << cache, writer, env, heap, calls, envChanges,
                    nonFactoryVars >>

\* line 35: f.mu.RUnlock()
RUnlock(g) ==
    /\ pc[g] = "L35"
    /\ readers' = readers \ {g}
    /\ pc' = SetFor(g, pc, "L37")
    /\ UNCHANGED << cache, writer, name, provider, err, ret, ranCtor, sawAvail, result, env,
                    heap, returned, failed, calls, envChanges,
                    nonFactoryVars >>

\* a Lock that did not wait for the readers to leave
LockIgnoringReaders(g) ==
    /\ pc[g] = "L37"
    /\ writer = 0
    /\ writer' = g
    /\ pc' = SetFor(g, pc, "L40")
    /\ UNCHANGED << cache, readers, name, provider, err, ret, ranCtor, sawAvail, result, env,
                    heap, returned, failed, calls, envChanges,
                    nonFactoryVars >>

\* lines 37-38: f.mu.Lock(); defer f.mu.Unlock()
Lock(g) ==
    /\ pc[g] = "L37"
    /\ writer = 0
    /\ readers = {}
    /\ writer' = g
    /\ pc' = SetFor(g, pc, "L40")
    /\ UNCHANGED << cache, readers, name, provider, err, ret, ranCtor, sawAvail, result, env,
                    heap, returned, failed, calls, envChanges,
                    nonFactoryVars >>

\* lines 40-42: the re-check under the exclusive lock
Recheck(g) ==
    /\ pc[g] = "L40"
    /\ IF RecheckHit(cache, name[g])
       THEN /\ ret' = SetFor(g, ret, [prov |-> cache[name[g]], err |-> NilErr])
            /\ pc' = SetFor(g, pc, "defer")
       ELSE /\ ret' = ret
            /\ pc' = SetFor(g, pc, "L47")
    /\ UNCHANGED << cache, readers, writer, name, provider, err, ranCtor, sawAvail, result,
                    env, heap, returned, failed, calls, envChanges,
                    nonFactoryVars >>

\* the address of a newly allocated &Provider{...}
NewInstance(h) == Cardinality(h) + 2

\* lines 47-55: the switch on name, with the constructor it calls
Construct(g) ==
    /\ pc[g] = "L47"
    /\ IF IsKnownName(name[g])
       THEN LET r == NewProviderFor(name[g], env)
                p == NewInstance(heap)
            IN  /\ ranCtor' = SetFor(g, ranCtor, TRUE)
                /\ sawAvail' = SetFor(g, sawAvail, Available(name[g], env))
                /\ err' = SetFor(g, err, r.err)
                /\ IF r.ok
                   THEN /\ provider' = SetFor(g, provider, p)
                        /\ heap' = heap \cup {[id |-> p, name |-> name[g],
                                               client |-> r.client, apiKey |-> r.apiKey,
                                               cliPath |-> r.cliPath]}
                   ELSE /\ provider' = SetFor(g, provider, NilPointer)
                        /\ heap' = heap
                /\ ret' = ret
                /\ pc' = SetFor(g, pc, "L57")
       ELSE /\ ret' = SetFor(g, ret, [prov |-> NilProvider,
                                     err |-> ErrorString("unknown provider: " \o name[g])])
            /\ pc' = SetFor(g, pc, "defer")
            /\ UNCHANGED << ranCtor, sawAvail, err, provider, heap >>
    /\ UNCHANGED << cache, readers, writer, name, result, env, returned, failed,
                    calls, envChanges,
                    nonFactoryVars >>

\* lines 57-59: if err != nil { return nil, err }
CheckErr(g) ==
    /\ pc[g] = "L57"
    /\ IF ConstructorFailed(err[g])
       THEN /\ ret' = SetFor(g, ret, [prov |-> NilProvider, err |-> err[g]])
            /\ pc' = SetFor(g, pc, "defer")
       ELSE /\ ret' = ret
            /\ pc' = SetFor(g, pc, "L61")
    /\ UNCHANGED << cache, readers, writer, name, provider, err, ranCtor, sawAvail, result,
                    env, heap, returned, failed, calls, envChanges,
                    nonFactoryVars >>

\* lines 61-63: f.cache[name] = provider; return provider, nil
Store(g) ==
    /\ pc[g] = "L61"
    /\ cache' = CacheStore(cache, name[g], provider[g])
    /\ ret' = SetFor(g, ret, [prov |-> provider[g], err |-> NilErr])
    /\ pc' = SetFor(g, pc, "defer")
    /\ UNCHANGED << readers, writer, name, provider, err, ranCtor, sawAvail, result, env,
                    heap, returned, failed, calls, envChanges,
                    nonFactoryVars >>

\* a return from the slow path without the deferred Unlock
ReturnWithoutUnlock(g) ==
    /\ pc[g] = "defer"
    /\ Complete(g, ret[g].prov, ret[g].err)
    /\ UNCHANGED << cache, readers, writer, env, heap, calls, envChanges,
                    nonFactoryVars >>

\* line 38, run at return: the deferred f.mu.Unlock()
DeferredUnlock(g) ==
    /\ pc[g] = "defer"
    /\ writer' = 0
    /\ Complete(g, ret[g].prov, ret[g].err)
    /\ UNCHANGED << cache, readers, env, heap, calls, envChanges,
                    nonFactoryVars >>

\* the world outside the factory: a binary is installed or removed, the API-key
\* variable is set or unset, the SDK client starts or stops being constructible
EnvChange ==
    /\ envChanges < MaxEnvChanges
    /\ envChanges' = envChanges + 1
    /\ \/ env' = [env EXCEPT !.claudeCli = ~@]
       \/ env' = [env EXCEPT !.geminiCli = ~@]
       \/ env' = [env EXCEPT !.apiKey = IF @ = "" THEN "key" ELSE ""]
       \/ env' = [env EXCEPT !.sdkOK = ~@]
    /\ UNCHANGED << cache, readers, writer, pc, name, provider, err, ret, ranCtor, sawAvail,
                    result, heap, returned, failed, calls,
                    nonFactoryVars >>

GetProvider(g) ==
    \/ \E n \in ProviderNames : Call(g, n)
    \/ RLock(g)
    \/ FastCheck(g)
    \/ FastReturn(g)
    \/ RUnlock(g)
    \/ Lock(g)
    \/ Recheck(g)
    \/ Construct(g)
    \/ CheckErr(g)
    \/ Store(g)
    \/ DeferredUnlock(g)

FactoryNext ==
    \/ \E g \in Goroutines : GetProvider(g)
    \/ EnvChange


(***************************************************************************)
(* Retry engine: RetryWithBackoff(ctx, fn).  Durations are in seconds.     *)
(***************************************************************************)
maxRetries == 3
initialDelay == 1
maxDelay == 30
backoffRate == 2

\* context.Canceled and context.DeadlineExceeded
ContextCanceled == ErrorString("context canceled")
ContextDeadlineExceeded ==
    << ErrLink("deadlineExceededError", "", "context deadline exceeded") >>
ContextErrors == {ContextCanceled, ContextDeadlineExceeded}

\* what a call of fn may return: a string with a nil error, or an error
FnResults == {"success", ""}
FnErrors == {ErrorString("network error"), ErrorString("malformed request"),
             ErrAuthenticationFailed(ProviderGemini, ErrorString("invalid API key"))}
FnOutcomes == [val : FnResults, err : {NilErr}] \cup [val : {"", "partial"}, err : FnErrors]

\* the functions passed as fn: one outcome per call, the last one repeated
FnPlans == [1..maxRetries -> FnOutcomes]
FnOutcome(plan, i) == IF i <= maxRetries THEN plan[i] ELSE plan[maxRetries]


\* where a cancellation found the engine: position, attempt, calls, waits, seconds
CancelPoint(p, a, c, w, t) == [pc |-> p, attempt |-> a, calls |-> c, waits |-> w, slept |-> t]
NotCancelled == CancelPoint("never", 0, 0, 0, 0)

RetryInit ==
    /\ rpc = "L30"
    /\ attempt = 0
    /\ delay = initialDelay
    /\ lastErr = NilErr
    /\ fnResult = ""
    /\ fnErr = NilErr
    /\ timer = 0
    /\ ctxErr \in {NilErr} \cup ContextErrors
    /\ retResult = ""
    /\ retErr = NilErr
    /\ callCount = 0
    /\ slept = 0
    /\ waits = 0
    /\ fnPlan \in FnPlans
    /\ fnLog = << >>
    /\ cancelAt = IF ctxErr = NilErr THEN NotCancelled
                  ELSE CancelPoint("before", 0, 0, 0, 0)

\* mutants: the loop stops one attempt early; the loop runs one attempt more
MoreAttemptsOneLess(a) == a < maxRetries - 1
MoreAttemptsOneMore(a) == a <= maxRetries

\* line 30: the loop condition attempt < maxRetries
MoreAttempts(a) == a < maxRetries

\* mutant: the context is not checked before an attempt
ContextDoneUnchecked(c) == FALSE

\* line 32: ctx.Err() != nil
ContextDone(c) == c # NilErr

\* mutant: the wait is a plain sleep, with no case for ctx.Done()
SelectCtxDoneMissing(c) == FALSE

\* line 52: the channel ctx.Done() is closed
SelectCtxDone(c) == c # NilErr

\* line 44: attempt < maxRetries-1
SleepsAfter(a) == a < maxRetries - 1

\* a backoff that does not grow
NextDelayConstant(d) == d

\* lines 48-51: the next delay
NextDelay(d) == IF d * backoffRate > maxDelay THEN maxDelay ELSE d * backoffRate

\* mutant: the last error is formatted with %v, not wrapped with %w
ExhaustedErrorNotWrapped(e) == ErrorString("failed after 3 retries")

\* line 58: fmt.Errorf("failed after %d retries: %w", maxRetries, lastErr)
ExhaustedError(e) == WrapError("failed after 3 retries", e)

\* a return statement of RetryWithBackoff
Return(s, e) ==
    /\ retResult' = s
    /\ retErr' = e
    /\ rpc' = "done"

\* line 30: for attempt := 0; attempt < maxRetries; attempt++
LoopCond ==
    /\ rpc = "L30"
    /\ rpc' = IF MoreAttempts(attempt) THEN "L32" ELSE "L58"
    /\ UNCHANGED << attempt, delay, lastErr, fnResult, fnErr, timer, ctxErr,
                    retResult, retErr, callCount, slept, waits, fnPlan, fnLog, cancelAt,
                    nonRetryVars >>

\* lines 32-34: if err := ctx.Err(); err != nil { return "", err }
CheckCtx ==
    /\ rpc = "L32"
    /\ IF ContextDone(ctxErr)
       THEN Return("", ctxErr)
       ELSE /\ rpc' = "L36"
            /\ UNCHANGED << retResult, retErr >>
    /\ UNCHANGED << attempt, delay, lastErr, fnResult, fnErr, timer, ctxErr,
                    callCount, slept, waits, fnPlan, fnLog, cancelAt,
                    nonRetryVars >>

\* line 36: fn(ctx) is called
CallFn ==
    /\ rpc = "L36"
    /\ callCount' = callCount + 1
    /\ rpc' = "fn"
    /\ UNCHANGED << attempt, delay, lastErr, fnResult, fnErr, timer, ctxErr,
                    retResult, retErr, slept, waits, fnPlan, fnLog, cancelAt,
                    nonRetryVars >>

\* line 36: fn returns (s, e); a fn that honours its context may return ctx.Err()
FnReturns(s, e) ==
    /\ rpc = "fn"
    /\ fnResult' = s
    /\ fnErr' = e
    /\ fnLog' = Append(fnLog, [val |-> s, err |-> e])
    /\ rpc' = "L37"
    /\ UNCHANGED << attempt, delay, lastErr, timer, ctxErr, retResult, retErr,
                    callCount, slept, waits, fnPlan, cancelAt,
                    nonRetryVars >>

FnReturn ==
    \/ FnReturns(FnOutcome(fnPlan, callCount).val, FnOutcome(fnPlan, callCount).err)
    \/ ctxErr # NilErr /\ FnReturns("", ctxErr)

\* an engine that gives up at once on an error of the provider's own kinds
CheckResultClassifying ==
    /\ rpc = "L37"
    /\ IF fnErr = NilErr
       THEN /\ Return(fnResult, NilErr)
            /\ lastErr' = lastErr
       ELSE IF IsProviderError(fnErr)
       THEN /\ Return("", fnErr)
            /\ lastErr' = fnErr
       ELSE /\ lastErr' = fnErr
            /\ rpc' = "L44"
            /\ UNCHANGED << retResult, retErr >>
    /\ UNCHANGED << attempt, delay, fnResult, fnErr, timer, ctxErr, callCount,
                    slept, waits, fnPlan, fnLog, cancelAt,
                    nonRetryVars >>

\* lines 37-41: if err == nil { return result, nil }; lastErr = err
CheckResult ==
    /\ rpc = "L37"
    /\ IF fnErr = NilErr
       THEN /\ Return(fnResult, NilErr)
            /\ lastErr' = lastErr
       ELSE /\ lastErr' = fnErr
            /\ rpc' = "L44"
            /\ UNCHANGED << retResult, retErr >>
    /\ UNCHANGED << attempt, delay, fnResult, fnErr, timer, ctxErr, callCount,
                    slept, waits, fnPlan, fnLog, cancelAt,
                    nonRetryVars >>

\* lines 44-46: if attempt < maxRetries-1, the select starts with time.After(delay);
\* otherwise the loop goes on with attempt++
SleepGuard ==
    /\ rpc = "L44"
    /\ IF SleepsAfter(attempt)
       THEN /\ timer' = delay
            /\ waits' = waits + 1
            /\ rpc' = "L45"
            /\ attempt' = attempt
       ELSE /\ attempt' = attempt + 1
            /\ rpc' = "L30"
            /\ UNCHANGED << timer, waits >>
    /\ UNCHANGED << delay, lastErr, fnResult, fnErr, ctxErr, retResult, retErr,
                    callCount, slept, fnPlan, fnLog, cancelAt,
                    nonRetryVars >>

\* a second passes while the select is blocked: neither of its cases is ready
Tick ==
    /\ rpc = "L45"
    /\ timer > 0
    /\ ~SelectCtxDone(ctxErr)
    /\ timer' = timer - 1
    /\ slept' = slept + 1
    /\ UNCHANGED << rpc, attempt, delay, lastErr, fnResult, fnErr, ctxErr,
                    retResult, retErr, callCount, waits, fnPlan, fnLog, cancelAt,
                    nonRetryVars >>

\* lines 46-51: case <-time.After(delay), then attempt++
TimerFires ==
    /\ rpc = "L45"
    /\ timer = 0
    /\ delay' = NextDelay(delay)
    /\ attempt' = attempt + 1
    /\ rpc' = "L30"
    /\ UNCHANGED << lastErr, fnResult, fnErr, timer, ctxErr, retResult, retErr,
                    callCount, slept, waits, fnPlan, fnLog, cancelAt,
                    nonRetryVars >>

\* lines 52-53: case <-ctx.Done(): return "", ctx.Err()
CtxDone ==
    /\ rpc = "L45"
    /\ SelectCtxDone(ctxErr)
    /\ Return("", ctxErr)
    /\ UNCHANGED << attempt, delay, lastErr, fnResult, fnErr, timer, ctxErr,
                    callCount, slept, waits, fnPlan, fnLog, cancelAt,
                    nonRetryVars >>

\* line 58: all attempts failed
Exhausted ==
    /\ rpc = "L58"
    /\ Return("", ExhaustedError(lastErr))
    /\ UNCHANGED << attempt, delay, lastErr, fnResult, fnErr, timer, ctxErr,
                    callCount, slept, waits, fnPlan, fnLog, cancelAt,
                    nonRetryVars >>

\* the owner of the context cancels it, or its deadline passes, while
\* RetryWithBackoff runs
Cancel ==
    /\ rpc # "done"
    /\ ctxErr = NilErr
    /\ ctxErr' \in ContextErrors
    /\ cancelAt' = CancelPoint(rpc, attempt, callCount, waits, slept)
    /\ UNCHANGED << rpc, attempt, delay, lastErr, fnResult, fnErr, timer,
                    retResult, retErr, callCount, slept, waits, fnPlan, fnLog,
                    nonRetryVars >>

RetryNext ==
    \/ LoopCond
    \/ CheckCtx
    \/ CallFn
    \/ FnReturn
    \/ CheckResult
    \/ SleepGuard
    \/ Tick
    \/ TimerFires
    \/ CtxDone
    \/ Exhausted
    \/ Cancel

(***************************************************************************)
(* Generate of the Claude and the Gemini provider.  Text whose characters   *)
(* matter (backend output) is a sequence of one-character strings.          *)
(***************************************************************************)
\* unicode.IsSpace for the characters the backends' outputs are made of
Whitespace == {" ", "\n", "\t"}

RECURSIVE TrimLeft(_)
TrimLeft(s) == IF s # << >> /\ Head(s) \in Whitespace THEN TrimLeft(Tail(s)) ELSE s

RECURSIVE TrimRight(_)
TrimRight(s) ==
    IF s # << >> /\ s[Len(s)] \in Whitespace THEN TrimRight(SubSeq(s, 1, Len(s) - 1)) ELSE s

\* mutant: the output is returned as the backend wrote it
TrimSpaceSkipped(s) == s

\* strings.TrimSpace
TrimSpace(s) == TrimRight(TrimLeft(s))

\* string(output) and result.String(): the Go string made of the characters
RECURSIVE String(_)
String(s) == IF s = << >> THEN "" ELSE Head(s) \o String(Tail(s))

\* what a CLI backend writes: nothing, blanks only, an answer, an answer with
\* blanks around it
Outputs == { << >>, << " ", "\n" >>, << "l", "s" >>, << " ", "l", "s", " ", "-", "l", "\n" >> }

\* cmd.Output / cmd.CombinedOutput failing: the *exec.ExitError of a non-zero
\* exit, and any other error
ExitError == << ErrLink("ExitError", "", "exit status 1") >>
ExecErrors == {ExitError, ErrorString("fork/exec: permission denied")}

\* genai.APIError with its Status, and the phrases wrapError looks for in its Message
APIError(status, phrases) ==
    << [type |-> "APIError", provider |-> "", msg |-> status, phrases |-> phrases] >>

\* what Models.GenerateContent fails with: API errors and a transport error
ApiErrors == {APIError("INVALID_ARGUMENT", {"API key"}),
              APIError("RESOURCE_EXHAUSTED", {}),
              APIError("NOT_FOUND", {"model"}),
              APIError("INTERNAL", {}),
              ErrorString("network error")}

\* a *genai.GenerateContentResponse: the number of candidates, whether the first
\* one has a Content, and the Text of each of its Parts
Response(n, c, p) == [candidates |-> n, hasContent |-> c, parts |-> p]
NoResponse == Response(0, FALSE, << >>)
Responses == {NoResponse, Response(1, FALSE, << >>)}
             \cup {Response(1, TRUE, p) :
                     p \in { << >>, << << " " >>, << >>, << "\n" >> >>,
                             << << "l", "s" >> >>,
                             << << " ", "l" >>, << >>, << "s", "\n" >> >> }}

\* errors.As(err, &target): the first error of the chain that has the type
ErrorsAs(e, type) ==
    LET found == {i \in 1..Len(e) : e[i].type = type}
    IN  IF found = {} THEN << >>
        ELSE << e[CHOOSE i \in found : \A j \in found : i <= j] >>

\* gemini wrapError(err, modelName)
wrapError(e, model) ==
    LET apiErr == ErrorsAs(e, "APIError")
    IN  IF apiErr # << >>
        THEN IF apiErr[1].msg = "INVALID_ARGUMENT" /\ "API key" \in apiErr[1].phrases
             THEN ErrAuthenticationFailed(ProviderGemini, e)
             ELSE IF apiErr[1].msg = "RESOURCE_EXHAUSTED"
             THEN ErrRateLimitExceeded(ProviderGemini, e)
             ELSE IF apiErr[1].msg = "NOT_FOUND" /\ "model" \in apiErr[1].phrases
             THEN ErrModelNotFound(model, ProviderGemini, e)
             ELSE WrapError("gemini API error: status, code", e)
        ELSE WrapError("gemini API error", e)

\* a WithModel that leaves a model already chosen alone
WithModelFirstWins(o, model) == IF o.Model = "" THEN [o EXCEPT !.Model = model] ELSE o

\* llm.WithModel(model) applied to the options o
WithModel(o, model) == [o EXCEPT !.Model = model]

\* llm.BuildOptions(opts): every option applied in order to &GenerateOptions{}
RECURSIVE BuildOptions(_)
BuildOptions(os) ==
    IF os = << >> THEN [Model |-> ""]
    ELSE WithModel(BuildOptions(SubSeq(os, 1, Len(os) - 1)), os[Len(os)])

\* the option lists callers pass, each option the argument of a WithModel
OptionLists == { << >>, << "" >>, << "opus" >>, << "sonnet", "" >>, << "sonnet", "opus" >>,
                 << "", "opus" >> }

\* (*Provider).DefaultModel of the two providers
DefaultModel(n) == IF n = ProviderClaude THEN "haiku" ELSE "gemini-3-flash-preview"

\* the first lines of Generate: the model of the options, or the default
ModelFor(n, os) ==
    IF BuildOptions(os).Model = "" THEN DefaultModel(n) ELSE BuildOptions(os).Model

\* the providers the constructors can return, by what Generate reads of them
Receivers ==
    UNION {{[name |-> n, client |-> NewProviderFor(n, e).client,
             cliPath |-> NewProviderFor(n, e).cliPath] :
               e \in {x \in [claudeCli : BOOLEAN, geminiCli : BOOLEAN,
                             apiKey : {"", "key"}, sdkOK : BOOLEAN] :
                        NewProviderFor(n, x).ok}} :
           n \in {ProviderClaude, ProviderGemini}}

\* what one call of the backend gave: an error, or the output of the subprocess
\* and the response of the API
NoCall == [err |-> NilErr, out |-> << >>, resp |-> NoResponse]
CallResults(b, c) ==
    {[err |-> NilErr, out |-> b.out, resp |-> b.resp], [NoCall EXCEPT !.err = b.err]}
    \cup (IF c = NilErr THEN {} ELSE {[NoCall EXCEPT !.err = c]})

GenerateInit ==
    /\ gpc = "start"
    /\ receiver \in Receivers
    /\ opts \in OptionLists
    /\ backend \in IF receiver.client
                   THEN [err : ApiErrors, out : {<< >>}, resp : Responses]
                   ELSE [err : ExecErrors, out : Outputs, resp : {NoResponse}]
    /\ modelName = ""
    /\ call = NoCall
    /\ backendLog = << >>
    /\ genRet = [val |-> "", err |-> NilErr]

\* a return statement of Generate and of generateViaCLI
GenerateReturns(s, e) ==
    /\ genRet' = [val |-> s, err |-> e]
    /\ gpc' = "done"

\* a call of the backend, which was handed the model m, ends with result c
BackendCall(c, m) ==
    /\ call' = [err |-> c.err, out |-> c.out, resp |-> c.resp, model |-> m]
    /\ backendLog' = Append(backendLog, IF c.err = NilErr THEN "ok" ELSE "fail")

\* claude lines 49-54, gemini lines 77-91: the model is chosen and the path taken
Generate ==
    /\ gpc = "start"
    /\ modelName' = ModelFor(receiver.name, opts)
    /\ gpc' = IF receiver.name = ProviderClaude THEN "L56"
              ELSE IF ~receiver.client THEN "cli" ELSE "retry"
    /\ rpc' = IF receiver.name = ProviderGemini /\ receiver.client THEN "L30" ELSE rpc
    /\ UNCHANGED << receiver, opts, backend, call, backendLog, genRet,
                    attempt, delay, lastErr, fnResult, fnErr, timer, ctxErr, retResult,
                    retErr, callCount, slept, waits, fnPlan, fnLog, cancelAt,
                    nonGenerateVars >>

\* claude lines 56-67: the CLI is run once and its output trimmed
ClaudeGenerate ==
    /\ gpc = "L56"
    /\ \E c \in CallResults(backend, ctxErr) :
        /\ BackendCall(c, modelName)
        /\ IF c.err # NilErr
           THEN GenerateReturns("", WrapError("claude CLI failed", c.err))
           ELSE IF String(TrimSpace(c.out)) = ""
           THEN GenerateReturns("", ErrorString("claude CLI returned empty response"))
           ELSE GenerateReturns(String(TrimSpace(c.out)), NilErr)
    /\ UNCHANGED << receiver, opts, backend, modelName, retryVars, nonGenerateVars >>

\* gemini lines 124-145
generateViaCLI ==
    /\ gpc = "cli"
    /\ IF ~receiver.cliPath
       THEN /\ GenerateReturns("", ErrorString("gemini CLI not available"))
            /\ UNCHANGED << call, backendLog >>
       ELSE \E c \in CallResults(backend, ctxErr) :
            /\ BackendCall(c, modelName)
            /\ IF c.err # NilErr
               THEN IF ErrorsAs(c.err, "ExitError") # << >>
                    THEN GenerateReturns("", ErrorString("gemini CLI failed: stderr"))
                    ELSE GenerateReturns("", WrapError("gemini CLI failed", c.err))
               ELSE IF String(TrimSpace(c.out)) = ""
               THEN GenerateReturns("", ErrorString("gemini CLI returned empty response"))
               ELSE GenerateReturns(String(TrimSpace(c.out)), NilErr)
    /\ UNCHANGED << receiver, opts, backend, modelName, retryVars, nonGenerateVars >>

\* gemini line 92, in the function passed to RetryWithBackoff: the API is called
GenerateContent ==
    /\ gpc = "retry"
    /\ rpc = "fn"
    /\ Len(backendLog) < callCount
    /\ \E c \in CallResults(backend, ctxErr) : BackendCall(c, modelName)
    /\ UNCHANGED << gpc, receiver, opts, backend, modelName, genRet,
                    retryVars, nonGenerateVars >>

\* gemini lines 106-111: the Text of the parts, written one after the other
RECURSIVE JoinParts(_)
JoinParts(parts) ==
    IF parts = << >> THEN << >>
    ELSE IF Head(parts) # << >> THEN Head(parts) \o JoinParts(Tail(parts))
    ELSE JoinParts(Tail(parts))

\* gemini lines 93-118: what the function passed to RetryWithBackoff returns
APIResult(c, model) ==
    IF c.err # NilErr THEN [val |-> "", err |-> wrapError(c.err, model)]
    ELSE IF c.resp.candidates = 0
    THEN [val |-> "", err |-> ErrorString("gemini API returned no candidates")]
    ELSE IF ~c.resp.hasContent
    THEN [val |-> "", err |-> ErrorString("gemini API returned nil content")]
    ELSE IF String(TrimSpace(JoinParts(c.resp.parts))) = ""
    THEN [val |-> "", err |-> ErrorString("gemini API returned empty response")]
    ELSE [val |-> String(TrimSpace(JoinParts(c.resp.parts))), err |-> NilErr]

APIReturn ==
    /\ gpc = "retry"
    /\ Len(backendLog) = callCount
    /\ FnReturns(APIResult(call, modelName).val, APIResult(call, modelName).err)

\* gemini line 91: return llm.RetryWithBackoff(...)
GenerateReturn ==
    /\ gpc = "retry"
    /\ rpc = "done"
    /\ GenerateReturns(retResult, retErr)
    /\ UNCHANGED << receiver, opts, backend, modelName, call, backendLog,
                    retryVars, nonGenerateVars >>

GenerateNext ==
    \/ Generate
    \/ ClaudeGenerate
    \/ generateViaCLI
    \/ GenerateContent
    \/ APIReturn
    \/ GenerateReturn
    \/ LoopCond
    \/ CheckCtx
    \/ CallFn
    \/ CheckResult
    \/ SleepGuard
    \/ Tick
    \/ TimerFires
    \/ CtxDone
    \/ Exhausted
    \/ Cancel

(***************************************************************************)
(* Configuration resolver: ResolveProviderConfig and ApplyFlags            *)
(***************************************************************************)
\* the commands that resolve a configuration, and the keys they read
Commands == {"do", "pr"}
CommandKey(command, field) == "commands." \o command \o "." \o field
ProviderKeys == {"provider"} \cup {CommandKey(c, "provider") : c \in Commands}
ModelKeys == {"model"} \cup {CommandKey(c, "model") : c \in Commands}
ConfigKeys == ProviderKeys \cup ModelKeys

\* a key that is not set, and a key set to the value v
NotSet == [set |-> FALSE, val |-> ""]
SetTo(v) == [set |-> TRUE, val |-> v]

\* the configurations: every key is not set, set to the empty string, or set
\* to a provider name (a model name)
Configurations ==
    {v \in [ConfigKeys -> {NotSet, SetTo(""), SetTo("claude"), SetTo("gemini"),
                           SetTo("sonnet")}] :
        /\ \A k \in ProviderKeys : v[k] # SetTo("sonnet")
        /\ \A k \in ModelKeys : v[k] \notin {SetTo("claude"), SetTo("gemini")}}

\* mutant: a key set to the empty string counts as not set
IsSetNonEmpty(v, key) == v[key].set /\ v[key].val # ""

\* viper.IsSet(key) and viper.GetString(key)
IsSet(v, key) == v[key].set
GetString(v, key) == IF v[key].set THEN v[key].val ELSE ""

\* mutant: the command's keys are used only if both of them are set
ResolveWholeLayer(v, command) ==
    IF v[CommandKey(command, "provider")].set /\ v[CommandKey(command, "model")].set
    THEN [Provider |-> v[CommandKey(command, "provider")].val,
          Model |-> v[CommandKey(command, "model")].val]
    ELSE [Provider |-> GetString(v, "provider"), Model |-> GetString(v, "model")]

\* config.ResolveProviderConfig(commandName)
ResolveProviderConfig(v, command) ==
    [Provider |-> IF IsSet(v, CommandKey(command, "provider"))
                  THEN GetString(v, CommandKey(command, "provider"))
                  ELSE GetString(v, "provider"),
     Model |-> IF IsSet(v, CommandKey(command, "model"))
               THEN GetString(v, CommandKey(command, "model"))
               ELSE GetString(v, "model")]

\* mutant: the flags are copied whether given or not
ApplyFlagsAlways(c, pf, mf) == [Provider |-> pf, Model |-> mf]

\* (*ProviderConfig).ApplyFlags(providerFlag, modelFlag)
ApplyFlags(c, pf, mf) ==
    [Provider |-> IF pf # "" THEN pf ELSE c.Provider,
     Model |-> IF mf # "" THEN mf ELSE c.Model]

ConfigInit ==
    /\ viper \in Configurations
    /\ commandName \in Commands
    /\ providerFlag \in {"", "gemini"}
    /\ modelFlag \in {"", "opus"}
    /\ cfg = [Provider |-> "", Model |-> ""]
    /\ resolved = [Provider |-> "", Model |-> ""]
    /\ cpc = "start"

\* a resolver that looks at the flags and writes what it found to the global keys
ResolveWithFlags ==
    /\ cpc = "start"
    /\ commandName = "do"
    /\ cfg' = ApplyFlags(ResolveProviderConfig(viper, commandName), providerFlag, modelFlag)
    /\ resolved' = cfg'
    /\ viper' = [viper EXCEPT !["provider"] = SetTo(cfg'.Provider)]
    /\ cpc' = "resolved"
    /\ UNCHANGED << commandName, providerFlag, modelFlag, nonConfigVars >>

\* cmd/do.go line 32: cfg := config.ResolveProviderConfig("do")
Resolve ==
    /\ cpc = "start"
    /\ commandName = "do"
    /\ cfg' = ResolveProviderConfig(viper, commandName)
    /\ resolved' = ResolveProviderConfig(viper, commandName)
    /\ cpc' = "resolved"
    /\ UNCHANGED << viper, commandName, providerFlag, modelFlag, nonConfigVars >>

\* cmd/do.go line 33: cfg.ApplyFlags(providerFlag, modelFlag)
Apply ==
    /\ cpc = "resolved"
    /\ cfg' = ApplyFlags(cfg, providerFlag, modelFlag)
    /\ cpc' = "applied"
    /\ UNCHANGED << viper, commandName, providerFlag, modelFlag, resolved, nonConfigVars >>

\* pr/process.go lines 33-50: ProcessReviews works out the provider and the
\* model itself, from its overrides and two calls of the resolver
ProcessReviewsConfig ==
    /\ cpc = "start"
    /\ commandName = "pr"
    /\ resolved' = ResolveProviderConfig(viper, "pr")
    /\ cfg' = [Provider |-> IF providerFlag # "" THEN providerFlag
                            ELSE IF ResolveProviderConfig(viper, "pr").Provider = ""
                            THEN "claude"
                            ELSE ResolveProviderConfig(viper, "pr").Provider,
               Model |-> IF modelFlag # "" THEN modelFlag
                         ELSE ResolveProviderConfig(viper, "pr").Model]
    /\ cpc' = "pr"
    /\ UNCHANGED << viper, commandName, providerFlag, modelFlag, nonConfigVars >>

ConfigNext ==
    \/ Resolve
    \/ Apply
    \/ ProcessReviewsConfig

(***************************************************************************)
(* Interactive sessions: IOStreams and LaunchClaudeCode                    *)
(***************************************************************************)
\* file descriptors; a nil isTerminalFunc; the functions that can be injected
Fds == {0, 1}
NilFunc == << >>
TerminalFuncs == [Fds -> BOOLEAN]

\* the *IOStreams values: those of NewIOStreams over the process' standard
\* streams and those tests build over buffers, with any terminal check
IOStreams ==
    [In : {"os.Stdin"}, Out : {"os.Stdout"}, ErrOut : {"os.Stderr"},
     isTerminalFunc : TerminalFuncs \cup {NilFunc}, stdinFd : Fds]
    \cup [In : {"in"}, Out : {"out"}, ErrOut : {"errOut"},
          isTerminalFunc : TerminalFuncs \cup {NilFunc}, stdinFd : Fds]

\* mutant: the check is made on descriptor 0, whatever descriptor was recorded
IsInteractiveOfStdin(s) ==
    IF s.isTerminalFunc = NilFunc THEN FALSE ELSE s.isTerminalFunc[0]

\* (*IOStreams).IsInteractive
IsInteractive(s) ==
    IF s.isTerminalFunc = NilFunc THEN FALSE ELSE s.isTerminalFunc[s.stdinFd]

\* the method set of each dynamic type a llm.Provider variable holds here
MethodSet(type) ==
    {"Generate", "ValidateModel", "DefaultModel", "Name"}
    \cup (IF type = "mockInteractiveProvider" THEN {"RunInteractive"}
          ELSE IF type = "gemini.Provider" THEN {"RunInteractive", "HasInteractiveSupport"}
          ELSE {})
ProviderTypes == {"mockInteractiveProvider", "basicProviderWrapper", "gemini.Provider"}

\* mutant: the type assertion is not looked at
ImplementsAnything(type) == TRUE

\* provider.(llm.InteractiveProvider): ok
ImplementsInteractive(type) == "RunInteractive" \in MethodSet(type)

\* lines 126-170: the prompt, by the parts it is formatted from
Prompt(a) ==
    [feedbackFile |-> a.feedbackFile,
     targetFileInfo |-> a.targetFile,
     batchInfo |-> IF a.totalCount > 1 THEN << a.currentIndex, a.totalCount >> ELSE << >>]

\* mutant: the provider is handed new streams over the process' standard streams
RunInteractiveWithNewStreams(s, a) ==
    [streams |-> [s EXCEPT !.In = "os.Stdin", !.Out = "os.Stdout", !.ErrOut = "os.Stderr"],
     prompt |-> Prompt(a),
     opts |-> IF a.model # "" THEN << a.model >> ELSE << >>]

\* lines 172-177: the arguments of interactive.RunInteractive(ctx, streams, prompt, opts...)
RunInteractiveArgs(s, a) ==
    [streams |-> s,
     prompt |-> Prompt(a),
     opts |-> IF a.model # "" THEN << a.model >> ELSE << >>]

LaunchInit ==
    /\ lpc = "L116"
    /\ streams \in IOStreams
    /\ launched \in ProviderTypes
    /\ session \in [feedbackFile : {"test_feedback.md"}, targetFile : {"", "main.go"},
                    currentIndex : {1}, totalCount : {1, 3}, model : {"", "opus"}]
    /\ received = << >>
    /\ checks = << >>
    /\ launchErr = NilErr

\* lines 116-118: if !streams.IsInteractive() { return error }
CheckStreams ==
    /\ lpc = "L116"
    /\ checks' = Append(checks, [check |-> "IsInteractive", ok |-> IsInteractive(streams)])
    /\ IF ~IsInteractive(streams)
       THEN /\ launchErr' = ErrorString("interactive mode requires a terminal (TTY)")
            /\ lpc' = "done"
       ELSE /\ launchErr' = launchErr
            /\ lpc' = "L121"
    /\ UNCHANGED << streams, launched, session, received, nonLaunchVars >>

\* lines 121-124: interactive, ok := provider.(llm.InteractiveProvider)
CheckProvider ==
    /\ lpc = "L121"
    /\ checks' = Append(checks, [check |-> "InteractiveProvider",
                                 ok |-> ImplementsInteractive(launched)])
    /\ IF ~ImplementsInteractive(launched)
       THEN /\ launchErr' = ErrorString("provider does not support interactive mode")
            /\ lpc' = "done"
       ELSE /\ launchErr' = launchErr
            /\ lpc' = "L126"
    /\ UNCHANGED << streams, launched, session, received, nonLaunchVars >>

\* lines 126-177: the prompt and the options are built and RunInteractive called
CallRunInteractive ==
    /\ lpc = "L126"
    /\ received' = Append(received, RunInteractiveArgs(streams, session))
    /\ lpc' = "session"
    /\ UNCHANGED << streams, launched, session, checks, launchErr, nonLaunchVars >>

\* line 177: the session ends and LaunchClaudeCode returns what the provider returned
SessionReturns ==
    /\ lpc = "session"
    /\ launchErr' \in {NilErr, WrapError("gemini CLI interactive mode failed", ExitError)}
    /\ launched = "mockInteractiveProvider" => launchErr' = NilErr
    /\ lpc' = "done"
    /\ UNCHANGED << streams, launched, session, received, checks, nonLaunchVars >>

LaunchClaudeCode ==
    \/ CheckStreams
    \/ CheckProvider
    \/ CallRunInteractive
    \/ SessionReturns

(***************************************************************************)
(* Provider errors: the four constructors and Unwrap                       *)
(***************************************************************************)
\* the constructors of a *ProviderError, by the kind of error they make
ErrorKinds == {"ErrProviderNotAvailable", "ErrAuthenticationFailed",
               "ErrRateLimitExceeded", "ErrModelNotFound"}

\* the errors the constructors are called with: nil, plain errors, errors that
\* wrap another, errors of the API
Underlyings == {NilErr, LookPathErr, ErrorString("network error"), ContextCanceled,
                WrapError("dial tcp", ErrorString("timeout"))}
               \cup ApiErrors

\* the call of the constructor of the kind, for the provider and the model
NewProviderError(kind, p, model, e) ==
    IF kind = "ErrProviderNotAvailable" THEN ErrProviderNotAvailable(p, e)
    ELSE IF kind = "ErrAuthenticationFailed" THEN ErrAuthenticationFailed(p, e)
    ELSE IF kind = "ErrRateLimitExceeded" THEN ErrRateLimitExceeded(p, e)
    ELSE ErrModelNotFound(model, p, e)

ErrorsInit ==
    /\ epc = "start"
    /\ errorKind \in ErrorKinds
    /\ errorFor \in {ProviderClaude, ProviderGemini}
    /\ underlying \in Underlyings
    /\ built = NilErr
    /\ unwrapped = NilErr

\* a constructor is called with the underlying error
NewError ==
    /\ epc = "start"
    /\ built' = NewProviderError(errorKind, errorFor, DefaultModel(errorFor), underlying)
    /\ epc' = "built"
    /\ UNCHANGED << errorKind, errorFor, underlying, unwrapped, nonErrorVars >>

\* errors.Unwrap(err): the error's Unwrap method is called
CallUnwrap ==
    /\ epc = "built"
    /\ unwrapped' = Unwrap(built)
    /\ epc' = "unwrapped"
    /\ UNCHANGED << errorKind, errorFor, underlying, built, nonErrorVars >>

ErrorsNext ==
    \/ NewError
    \/ CallUnwrap

(***************************************************************************)
(* Gemini's RunInteractive                                                  *)
(***************************************************************************)
\* no command was built
NoCmd == [path |-> "", args |-> << >>, Stdin |-> "", Stdout |-> "", Stderr |-> ""]

\* a command whose standard streams are those of the process
CommandOnProcessStreams(model, prompt, s) ==
    [path |-> "gemini", args |-> << "-m", model, prompt >>,
     Stdin |-> "os.Stdin", Stdout |-> "os.Stdout", Stderr |-> "os.Stderr"]

\* lines 193-198: exec.CommandContext(ctx, p.cliPath, "-m", model, prompt) with
\* its Stdin, Stdout and Stderr set
Command(model, prompt, s) ==
    [path |-> "gemini", args |-> << "-m", model, prompt >>,
     Stdin |-> s.In, Stdout |-> s.Out, Stderr |-> s.ErrOut]

InteractiveInit ==
    /\ ipc = "L180"
    /\ runArgs \in [streams : IOStreams, prompt : {"test"},
                    opts : {<< >>, << "gemini-2.5-flash" >>, << "" >>}]
    /\ cliPath \in BOOLEAN
    /\ cmd = NoCmd
    /\ interactiveErr = NilErr

\* lines 180-182: if p.cliPath == "" { return error }
CheckCLIPath ==
    /\ ipc = "L180"
    /\ IF ~cliPath
       THEN /\ interactiveErr' =
                   ErrorString("gemini CLI not available for interactive mode")
            /\ ipc' = "done"
       ELSE /\ interactiveErr' = interactiveErr
            /\ ipc' = "L184"
    /\ UNCHANGED << runArgs, cliPath, cmd, nonInteractiveVars >>

\* lines 184-198: the model is chosen, the command built and the streams connected
BuildCommand ==
    /\ ipc = "L184"
    /\ cmd' = Command(ModelFor(ProviderGemini, runArgs.opts), runArgs.prompt,
                      runArgs.streams)
    /\ ipc' = "L200"
    /\ UNCHANGED << runArgs, cliPath, interactiveErr, nonInteractiveVars >>

\* lines 200-204: cmd.Run() and the return
RunCommand ==
    /\ ipc = "L200"
    /\ \E e \in {NilErr} \cup ExecErrors :
          interactiveErr' = IF e # NilErr
                            THEN WrapError("gemini CLI interactive mode failed", e)
                            ELSE NilErr
    /\ ipc' = "done"
    /\ UNCHANGED << runArgs, cliPath, cmd, nonInteractiveVars >>

RunInteractive ==
    \/ CheckCLIPath
    \/ BuildCommand
    \/ RunCommand

(***************************************************************************)
(* The session loop of ProcessReviews                                       *)
(***************************************************************************)
\* the most feedback files a directory holds here
MaxFiles == 3

\* the name of the k-th feedback file of a directory, in the order of the listing
FileName(k) == ToString(k) \o ".md"

\* filepath.Glob returns the names sorted: the lists of one to MaxFiles files
FileLists ==
    {[i \in 1..Len(s) |-> FileName(s[i])] :
        s \in {t \in UNION {[1..n -> 1..MaxFiles] : n \in 1..MaxFiles} :
                  \A i, j \in 1..Len(t) : i < j => t[i] < t[j]}}

\* what LaunchClaudeCode returns once the terminal and the provider were checked
LaunchErrors == {NilErr,
                 WrapError("gemini CLI interactive mode failed", ExitError),
                 WrapError("claude CLI interactive mode failed", ExitError)}

NotReturned == [returned |-> FALSE, err |-> NilErr]

ReviewsInit ==
    /\ ppc = "L87"
    /\ filteredFiles \in FileLists
    /\ fileIndex = 0
    /\ sessionLog = << >>
    /\ printed = << >>
    /\ processRet = NotReturned

\* line 87: for i, feedbackFile := range filteredFiles
RangeFiles ==
    /\ ppc = "L87"
    /\ ppc' = IF fileIndex < Len(filteredFiles) THEN "L98" ELSE "L105"
    /\ UNCHANGED << filteredFiles, fileIndex, sessionLog, printed, processRet,
                    nonReviewVars >>

\* lines 88-98: LaunchClaudeCode is called for the file
StartSession ==
    /\ ppc = "L98"
    /\ sessionLog' = Append(sessionLog,
                            [ev |-> "call", feedbackFile |-> filteredFiles[fileIndex + 1],
                             currentIndex |-> fileIndex + 1,
                             totalCount |-> Len(filteredFiles), err |-> NilErr])
    /\ ppc' = "session"
    /\ UNCHANGED << filteredFiles, fileIndex, printed, processRet, nonReviewVars >>

\* a loop that ends at the first session that failed
SessionEndsLoopOnError ==
    /\ ppc = "session"
    /\ \E e \in LaunchErrors :
        /\ sessionLog' = Append(sessionLog,
                                [ev |-> "return", feedbackFile |-> filteredFiles[fileIndex + 1],
                                 currentIndex |-> fileIndex + 1,
                                 totalCount |-> Len(filteredFiles), err |-> e])
        /\ printed' = IF e # NilErr THEN Append(printed, [index |-> fileIndex + 1, err |-> e])
                      ELSE printed
        /\ fileIndex' = IF e # NilErr THEN Len(filteredFiles) ELSE fileIndex + 1
    /\ ppc' = "L87"
    /\ UNCHANGED << filteredFiles, processRet, nonReviewVars >>

\* lines 98-103: LaunchClaudeCode returns, a failure is printed, the loop goes on
SessionEnds ==
    /\ ppc = "session"
    /\ \E e \in LaunchErrors :
        /\ sessionLog' = Append(sessionLog,
                                [ev |-> "return", feedbackFile |-> filteredFiles[fileIndex + 1],
                                 currentIndex |-> fileIndex + 1,
                                 totalCount |-> Len(filteredFiles), err |-> e])
        /\ printed' = IF e # NilErr THEN Append(printed, [index |-> fileIndex + 1, err |-> e])
                      ELSE printed
    /\ fileIndex' = fileIndex + 1
    /\ ppc' = "L87"
    /\ UNCHANGED << filteredFiles, processRet, nonReviewVars >>

\* lines 105-109: return nil
ReturnNil ==
    /\ ppc = "L105"
    /\ processRet' = [returned |-> TRUE, err |-> NilErr]
    /\ ppc' = "done"
    /\ UNCHANGED << filteredFiles, fileIndex, sessionLog, printed, nonReviewVars >>

ProcessReviews ==
    \/ RangeFiles
    \/ StartSession
    \/ SessionEnds
    \/ ReturnNil

(***************************************************************************)
(* resume.Run.  Times and durations are in seconds; titles and filters are  *)
(* sequences of one-character strings.                                      *)
(***************************************************************************)
Day == 86400
TenSeconds == 10

\* unicode.ToLower for the letters the titles and filters are made of
LowerOf(c) ==
    CASE c = "T" -> "t" [] c = "E" -> "e" [] c = "R" -> "r" [] c = "M" -> "m"
      [] c = "X" -> "x" [] OTHER -> c

\* a ToLower that changes nothing
ToLowerSkipped(s) == s

\* strings.ToLower
ToLower(s) == [i \in 1..Len(s) |-> LowerOf(s[i])]

\* strings.Contains
Contains(s, substr) ==
    \E i \in 0..Len(s) : i + Len(substr) <= Len(s) /\ SubSeq(s, i + 1, i + Len(substr)) = substr

\* the titles of the active window and the filters callers pass
Titles == {<< "T", "e", "r", "m" >>, << >>}
Filters == {<< >>, << "t", "E" >>, << "r", "m" >>, << "x" >>, << "T", "e", "r", "m", "s" >>}

\* the errors of a platform call
PlatformErrors == {ErrorString("exit status 1")}

\* a call of the clock or of the platform, with its argument and its result
Step(op, d, e) == [op |-> op, d |-> d, err |-> e]

ResumeInit ==
    /\ upc = "L44"
    /\ platform \in {"nil", "MockPlatform"}
    /\ now = 100
    /\ targetTime \in {95, 100, 105, 110, 111, 130}
    /\ windowFilter \in Filters
    /\ windowTitle \in Titles
    /\ waitDuration = 0
    /\ steps = << >>
    /\ resumeRet = NotReturned

\* a return statement of Run
RunReturns(e) ==
    /\ resumeRet' = [returned |-> TRUE, err |-> e]
    /\ upc' = "done"

\* lines 44-46: if CurrentPlatform == nil { return error }
CheckPlatform ==
    /\ upc = "L44"
    /\ IF platform = "nil"
       THEN RunReturns(ErrorString("resume command is not supported on this platform"))
       ELSE /\ upc' = "L48"
            /\ resumeRet' = resumeRet
    /\ UNCHANGED << platform, now, targetTime, windowFilter, windowTitle, waitDuration,
                    steps, nonResumeVars >>

\* lines 48-54: a target in the past means tomorrow; the time to wait
ComputeWait ==
    /\ upc = "L48"
    /\ targetTime' = IF targetTime < now THEN targetTime + Day ELSE targetTime
    /\ waitDuration' = targetTime' - now
    /\ upc' = "L58"
    /\ UNCHANGED << platform, now, windowFilter, windowTitle, steps, resumeRet,
                    nonResumeVars >>

\* SystemClock.Sleep(ctx, d) returns e: nil, or ctx.Err() (clock.go lines 20-29)
Sleep(d, e, next) ==
    /\ steps' = Append(steps, Step("Sleep", d, e))
    /\ IF e # NilErr
       THEN RunReturns(e)
       ELSE /\ upc' = next
            /\ resumeRet' = resumeRet
    /\ UNCHANGED << platform, now, targetTime, windowFilter, windowTitle, waitDuration,
                    nonResumeVars >>

\* lines 58-62 and 67-70: the first sleep, or the only one
FirstSleep ==
    /\ upc = "L58"
    /\ \E e \in {NilErr} \cup ContextErrors :
          IF waitDuration > TenSeconds
          THEN Sleep(waitDuration - TenSeconds, e, "L64")
          ELSE Sleep(waitDuration, e, "L74")

\* lines 63-66: the last ten seconds
LastSleep ==
    /\ upc = "L64"
    /\ \E e \in {NilErr} \cup ContextErrors : Sleep(TenSeconds, e, "L74")

\* lines 74-85: with a filter, the title of the active window is read and matched
CheckWindow ==
    /\ upc = "L74"
    /\ IF windowFilter = << >>
       THEN /\ upc' = "L88"
            /\ UNCHANGED << steps, resumeRet >>
       ELSE \E e \in {NilErr} \cup PlatformErrors :
            /\ steps' = Append(steps, Step("GetActiveWindowTitle", 0, e))
            /\ IF e # NilErr
               THEN RunReturns(WrapError("failed to get active window title", e))
               ELSE IF ~Contains(ToLower(windowTitle), ToLower(windowFilter))
               THEN RunReturns(ErrorString("active window does not match filter"))
               ELSE /\ upc' = "L88"
                    /\ resumeRet' = resumeRet
    /\ UNCHANGED << platform, now, targetTime, windowFilter, windowTitle, waitDuration,
                    nonResumeVars >>

\* lines 88-90: CurrentPlatform.TypeString(ctx, msg)
TypeString ==
    /\ upc = "L88"
    /\ \E e \in {NilErr} \cup PlatformErrors :
        /\ steps' = Append(steps, Step("TypeString", 0, e))
        /\ IF e # NilErr
           THEN RunReturns(WrapError("failed to type message", e))
           ELSE /\ upc' = "L92"
                /\ resumeRet' = resumeRet
    /\ UNCHANGED << platform, now, targetTime, windowFilter, windowTitle, waitDuration,
                    nonResumeVars >>

\* lines 92-96: CurrentPlatform.PressEnter(ctx), and return nil
PressEnter ==
    /\ upc = "L92"
    /\ \E e \in {NilErr} \cup PlatformErrors :
        /\ steps' = Append(steps, Step("PressEnter", 0, e))
        /\ RunReturns(IF e # NilErr THEN WrapError("failed to press enter", e) ELSE NilErr)
    /\ UNCHANGED << platform, now, targetTime, windowFilter, windowTitle, waitDuration,
                    nonResumeVars >>

Run ==
    \/ CheckPlatform
    \/ ComputeWait
    \/ FirstSleep
    \/ LastSleep
    \/ CheckWindow
    \/ TypeString
    \/ PressEnter

(***************************************************************************)
(* Specifications                                                          *)
(***************************************************************************)
\* the state of a retry engine that is not running
RetryIdle ==
    /\ RetryInit
    /\ ctxErr = NilErr
    /\ fnPlan = [i \in 1..maxRetries |-> [val |-> "success", err |-> NilErr]]

\* the state of a factory nobody calls
FactoryIdle ==
    /\ FactoryInit
    /\ env = AllInstalled

\* the state of a provider whose Generate nobody calls
GenerateIdle ==
    /\ receiver = [name |-> ProviderClaude, client |-> FALSE, cliPath |-> TRUE]
    /\ opts = << >>
    /\ backend = [err |-> ExitError, out |-> << >>, resp |-> NoResponse]
    /\ GenerateInit


\* the retry engine before Generate calls it: the context may already be cancelled
RetryNotCalled ==
    /\ rpc = "idle"
    /\ attempt = 0
    /\ delay = initialDelay
    /\ lastErr = NilErr
    /\ fnResult = ""
    /\ fnErr = NilErr
    /\ timer = 0
    /\ ctxErr \in {NilErr} \cup ContextErrors
    /\ retResult = ""
    /\ retErr = NilErr
    /\ callCount = 0
    /\ slept = 0
    /\ waits = 0
    /\ fnPlan = [i \in 1..maxRetries |-> [val |-> "", err |-> NilErr]]
    /\ fnLog = << >>
    /\ cancelAt = IF ctxErr = NilErr THEN NotCancelled
                  ELSE CancelPoint("before", 0, 0, 0, 0)

\* the state of a command that has not started: nothing configured, no flag
ConfigIdle ==
    /\ viper = [k \in ConfigKeys |-> NotSet]
    /\ commandName = "do"
    /\ providerFlag = ""
    /\ modelFlag = ""
    /\ ConfigInit


\* no interactive session is asked for; no error is being constructed
LaunchIdle ==
    /\ streams = [In |-> "os.Stdin", Out |-> "os.Stdout", ErrOut |-> "os.Stderr",
                  isTerminalFunc |-> NilFunc, stdinFd |-> 0]
    /\ launched = "gemini.Provider"
    /\ session = [feedbackFile |-> "test_feedback.md", targetFile |-> "",
                  currentIndex |-> 1, totalCount |-> 1, model |-> ""]
    /\ LaunchInit

ErrorsIdle ==
    /\ errorKind = "ErrProviderNotAvailable"
    /\ errorFor = ProviderClaude
    /\ underlying = NilErr
    /\ ErrorsInit

\* nobody calls RunInteractive, ProcessReviews or resume.Run
InteractiveIdle ==
    /\ runArgs = [streams |-> [In |-> "in", Out |-> "out", ErrOut |-> "errOut",
                               isTerminalFunc |-> NilFunc, stdinFd |-> 0],
                  prompt |-> "test", opts |-> << >>]
    /\ cliPath = TRUE
    /\ InteractiveInit

ReviewsIdle ==
    /\ filteredFiles = << FileName(1) >>
    /\ ReviewsInit

ResumeIdle ==
    /\ platform = "nil"
    /\ targetTime = 100
    /\ windowFilter = << >>
    /\ windowTitle = << >>
    /\ ResumeInit

OthersIdle == InteractiveIdle /\ ReviewsIdle /\ ResumeIdle

\* the factory under concurrent callers
Init == FactoryInit /\ RetryIdle /\ GenerateIdle /\ ConfigIdle /\ LaunchIdle /\ ErrorsIdle
        /\ OthersIdle
Next == FactoryNext
Spec == Init /\ [][Next]_vars

\* one call of RetryWithBackoff
RetrySpecInit ==
    FactoryIdle /\ RetryInit /\ GenerateIdle /\ ConfigIdle /\ LaunchIdle /\ ErrorsIdle
    /\ OthersIdle
RetrySpec == RetrySpecInit /\ [][RetryNext]_vars

\* one call of a provider's Generate
GenerateSpecInit ==
    FactoryIdle /\ RetryNotCalled /\ GenerateInit /\ ConfigIdle /\ LaunchIdle /\ ErrorsIdle
    /\ OthersIdle
GenerateSpec == GenerateSpecInit /\ [][GenerateNext]_vars

\* one run of a command that resolves its provider and model
ConfigSpecInit ==
    FactoryIdle /\ RetryIdle /\ GenerateIdle /\ ConfigInit /\ LaunchIdle /\ ErrorsIdle
    /\ OthersIdle
ConfigSpec == ConfigSpecInit /\ [][ConfigNext]_vars

\* one call of LaunchClaudeCode
LaunchSpecInit ==
    FactoryIdle /\ RetryIdle /\ GenerateIdle /\ ConfigIdle /\ LaunchInit /\ ErrorsIdle
    /\ OthersIdle
LaunchSpec == LaunchSpecInit /\ [][LaunchClaudeCode]_vars

\* one ProviderError constructed and unwrapped
ErrorsSpecInit ==
    FactoryIdle /\ RetryIdle /\ GenerateIdle /\ ConfigIdle /\ LaunchIdle /\ ErrorsInit
    /\ OthersIdle
ErrorsSpec == ErrorsSpecInit /\ [][ErrorsNext]_vars

\* the six components above at rest
CoreIdle == FactoryIdle /\ RetryIdle /\ GenerateIdle /\ ConfigIdle /\ LaunchIdle /\ ErrorsIdle

\* one call of the Gemini provider's RunInteractive
InteractiveSpecInit == CoreIdle /\ InteractiveInit /\ ReviewsIdle /\ ResumeIdle
InteractiveSpec == InteractiveSpecInit /\ [][RunInteractive]_vars

\* the session loop of one call of ProcessReviews
ReviewsSpecInit == CoreIdle /\ InteractiveIdle /\ ReviewsInit /\ ResumeIdle
ReviewsSpec == ReviewsSpecInit /\ [][ProcessReviews]_vars

\* one call of resume.Run
ResumeSpecInit == CoreIdle /\ InteractiveIdle /\ ReviewsIdle /\ ResumeInit
ResumeSpec == ResumeSpecInit /\ [][Run]_vars

(***************************************************************************)
(* Properties of the provider factory                                      *)
(***************************************************************************)
\* the instances constructed for name n, and the instances returned for it
ConstructedFor(n) == {h.id : h \in {x \in heap : x.name = n}}
ReturnedFor(n) == {r[2] : r \in {x \in returned : x[1] = n}}

\* C1: in every interleaving of concurrent GetProvider calls, for every name at
\* most one Provider instance is ever constructed, and whatever instance a call
\* returns for the name is that one.
C1_AtMostOneInstancePerName ==
    \A n \in ProviderNames :
        /\ Cardinality(ConstructedFor(n)) <= 1
        /\ ReturnedFor(n) \subseteq ConstructedFor(n)

\* C1 witness: a goroutine that missed the cache on the fast path finds, at the
\* re-check under the exclusive lock, the instance another goroutine constructed
\* in between.
C1_Witness ==
    \E g \in Goroutines :
        /\ pc[g] = "defer"
        /\ ~ranCtor[g]
        /\ ret[g].prov \in ConstructedFor(name[g])

\* C2: any two successful GetProvider calls for one name return the identical
\* instance, and whenever the exclusive lock is free every instance constructed
\* so far is the cache's entry for its name.
C2_SameInstanceReturned ==
    /\ \A r1, r2 \in returned : r1[1] = r2[1] => r1[2] = r2[2]
    /\ writer = 0 => \A h \in heap : cache[h.name] = h.id

\* C2 witness: a call returned the instance an earlier call had constructed and
\* returned.
C2_Witness ==
    /\ result.by # 0
    /\ result.err = NilErr
    /\ ~result.ctor
    /\ << result.name, result.prov >> \in returned
    /\ result.prov \in ConstructedFor(result.name)

\* C3: a call whose constructor failed returns a nil provider with the
\* constructor's error and the cache has no entry for the name; the cache never
\* holds anything but a constructed instance, so a failure is never served from
\* it: every error for a backend name comes from a constructor run by that very
\* call, and a call whose constructor ran while the backend was available
\* returns a constructed instance, whatever failed before.
C3_FailureNotCached ==
    /\ \A g \in Goroutines :
          (pc[g] = "defer" /\ ranCtor[g] /\ err[g] # NilErr) =>
              /\ ret[g] = [prov |-> NilProvider, err |-> err[g]]
              /\ ~CacheHas(cache, name[g])
    /\ \A n \in ProviderNames : CacheHas(cache, n) => cache[n] \in ConstructedFor(n)
    /\ (result.by # 0 /\ result.name \in {ProviderClaude, ProviderGemini}) =>
          /\ result.err # NilErr => (result.ctor /\ result.prov = NilProvider)
          /\ result.err = NilErr => result.prov \in ConstructedFor(result.name)
          /\ (result.ctor /\ result.avail) => result.err = NilErr

\* C3 witness: after a constructor failure for a name was returned, a later call
\* for the same name ran the constructor again and succeeded.
C3_Witness ==
    /\ result.by # 0
    /\ result.name \in failed
    /\ result.ctor
    /\ result.err = NilErr
    /\ cache[result.name] = result.prov

\* C4: a call with a name that is no backend returns a nil provider and a
\* non-nil error that is not a ProviderError, runs no constructor, and the cache
\* never has an entry for such a name.
C4_UnknownNameFails ==
    /\ \A n \in ProviderNames \ {ProviderClaude, ProviderGemini} :
          ~CacheHas(cache, n)
    /\ (result.by # 0 /\ result.name \notin {ProviderClaude, ProviderGemini}) =>
          /\ result.prov = NilProvider
          /\ result.err # NilErr
          /\ ~IsProviderError(result.err)
          /\ ~result.ctor

\* C4 witness: a call with an unknown name returned while the cache held an
\* entry for a backend.
C4_Witness ==
    /\ result.by # 0
    /\ result.name = "unknown"
    /\ CacheHas(cache, ProviderClaude)

(***************************************************************************)
(* Properties of the retry engine                                          *)
(***************************************************************************)
\* the context was never cancelled and RetryWithBackoff has returned
ReturnedUncancelled == rpc = "done" /\ ctxErr = NilErr

\* fn returns a nil error for the first time on its k-th call
FirstSuccessAt(k) ==
    /\ fnPlan[k].err = NilErr
    /\ \A i \in 1..(k - 1) : fnPlan[i].err # NilErr

\* C5: if fn first returns a nil error on its k-th call (k = 1, 2, 3) and the
\* context is not cancelled, RetryWithBackoff has called fn exactly k times when
\* it returns, it returns the k-th call's string with a nil error, and it has
\* waited k-1 times: once after each failure, never after the success.
C5_ReturnsFirstSuccess ==
    \A k \in 1..3 :
        (ReturnedUncancelled /\ FirstSuccessAt(k)) =>
            /\ callCount = k
            /\ Len(fnLog) = k
            /\ retResult = fnPlan[k].val
            /\ retErr = NilErr
            /\ waits = k - 1

\* C5 witness: fn failed twice, then returned "success", and RetryWithBackoff
\* returned it after 3 calls.
C5_Witness ==
    /\ ReturnedUncancelled
    /\ FirstSuccessAt(3)
    /\ callCount = 3
    /\ retResult = "success"

\* C6: if every call of fn fails and the context is never cancelled,
\* RetryWithBackoff returns after exactly 3 calls an empty string and an error
\* that is not the third call's error itself but unwraps to it.
C6_WrapsLastError ==
    (ReturnedUncancelled /\ \A i \in 1..3 : fnPlan[i].err # NilErr) =>
        /\ callCount = 3
        /\ retResult = ""
        /\ retErr # fnPlan[3].err
        /\ Unwrap(retErr) = fnPlan[3].err
        /\ ErrorsIs(retErr, fnPlan[3].err)

\* C6 witness: three calls failed, the third with another error than the first
\* two, and RetryWithBackoff has returned.
C6_Witness ==
    /\ ReturnedUncancelled
    /\ fnPlan[1].err # NilErr
    /\ fnPlan[2].err = fnPlan[1].err
    /\ fnPlan[3].err # NilErr
    /\ fnPlan[3].err # fnPlan[1].err
    /\ callCount = 3

\* C7: whenever the engine is at the context check that starts an attempt and
\* the context is cancelled or expired, its next step returns the empty string
\* and the context's error, with no call of fn and no wait; and a call with a
\* context cancelled beforehand returns with fn called zero times.
C7_CheckBeforeEachAttempt ==
    /\ [][(rpc = "L32" /\ ctxErr # NilErr) =>
            /\ rpc' = "done"
            /\ retResult' = ""
            /\ retErr' = ctxErr
            /\ callCount' = callCount
            /\ waits' = waits
            /\ slept' = slept]_vars
    /\ []((rpc = "done" /\ cancelAt.pc = "before") =>
            (callCount = 0 /\ waits = 0 /\ retErr = ctxErr))

\* C7 witness: the context was cancelled when the third attempt was about to
\* start, and RetryWithBackoff returned its error after the 2 calls made before.
C7_Witness ==
    /\ rpc = "done"
    /\ cancelAt.pc = "L32"
    /\ cancelAt.calls = 2
    /\ callCount = 2
    /\ retErr = ctxErr

\* C8: if the context is cancelled while the engine waits between two attempts,
\* RetryWithBackoff returns the context's error without a further second of
\* waiting and without a further call of fn.
C8_CancelDuringWait ==
    (rpc = "done" /\ cancelAt.pc = "L45") =>
        /\ retErr = ctxErr
        /\ retResult = ""
        /\ callCount = cancelAt.calls
        /\ slept = cancelAt.slept
        /\ waits = cancelAt.waits

\* C8 witness: cancelled during the second wait with time left on the timer.
C8_Witness ==
    /\ rpc = "done"
    /\ cancelAt.pc = "L45"
    /\ cancelAt.waits = 2
    /\ timer > 0
    /\ retErr = ctxErr

\* the cancellation came where the engine looks at the context next: before the
\* call, at the start of an attempt, or during a wait
CancelledAtCheckpoint ==
    \/ cancelAt.pc \in {"before", "L32", "L45"}
    \/ cancelAt.pc = "L30" /\ cancelAt.attempt < maxRetries

\* the cancellation came after an attempt's context check: just before, during
\* or after the call of fn, or after the last attempt
CancelledInAttempt ==
    \/ cancelAt.pc \in {"L36", "fn", "L37", "L44", "L58"}
    \/ cancelAt.pc = "L30" /\ cancelAt.attempt >= maxRetries

\* C9 as claimed: whenever the context was cancelled before an attempt, during
\* a call of fn or during a wait, the error RetryWithBackoff returns is the
\* context's error (here even: is it or wraps it, if an error is returned at all).
C9_CancellationNeverSwallowed ==
    (/\ rpc = "done"
     /\ ctxErr # NilErr
     /\ CancelledAtCheckpoint \/ cancelAt.pc = "fn"
     /\ retErr # NilErr) => ErrorsIs(retErr, ctxErr)

\* C9 amended: a cancellation that comes before the call, at the start of an
\* attempt or during a wait makes RetryWithBackoff return the context's error
\* with no further call of fn; a cancellation that comes after an attempt's
\* context check is seen only if fn fails in the first or second attempt:
\* otherwise RetryWithBackoff returns fn's result with a nil error (fn
\* succeeded) or, in the third attempt, the error "failed after 3 retries"
\* wrapping fn's last error.
C9_CancellationAtCheckpoints ==
    (rpc = "done" /\ ctxErr # NilErr) =>
        /\ CancelledAtCheckpoint =>
              /\ retErr = ctxErr
              /\ retResult = ""
              /\ callCount = cancelAt.calls
        /\ CancelledInAttempt =>
              \/ /\ retErr = ctxErr
                 /\ fnErr # NilErr
                 /\ cancelAt.attempt < maxRetries - 1
              \/ /\ retErr = NilErr
                 /\ fnErr = NilErr
                 /\ retResult = fnResult
              \/ /\ retErr = ExhaustedError(lastErr)
                 /\ retErr # ctxErr
                 /\ fnErr # NilErr
                 /\ cancelAt.attempt >= maxRetries - 1
        /\ CancelledAtCheckpoint \/ CancelledInAttempt

\* C9 witness: the context was cancelled during the third call of fn, which
\* failed, and RetryWithBackoff returned the wrapping error.
C9_Witness ==
    /\ rpc = "done"
    /\ cancelAt.pc = "fn"
    /\ cancelAt.calls = 3
    /\ retErr = ExhaustedError(lastErr)

\* C10: fn is never called more than 3 times, whatever it returns and whenever
\* the context is cancelled.
C10_AtMostThreeCalls == callCount <= 3 /\ Len(fnLog) <= 3

\* C10 witness: RetryWithBackoff has returned after three calls of fn, the third
\* made although the context was cancelled right after the third attempt's check.
C10_Witness ==
    /\ rpc = "done"
    /\ callCount = 3
    /\ cancelAt.pc = "L36"
    /\ cancelAt.calls = 2


(***************************************************************************)
(* Properties of Generate                                                  *)
(***************************************************************************)
\* C11 as claimed: every provider's Generate runs its backend call through the
\* retry engine, so when every backend call fails and the context is not
\* cancelled, Generate has made 3 backend attempts when it returns the error,
\* on the Claude path, the Gemini API path and the Gemini CLI path alike.
C11_ThreeBackendAttempts ==
    (/\ gpc = "done"
     /\ genRet.err # NilErr
     /\ ctxErr = NilErr
     /\ \A i \in 1..Len(backendLog) : backendLog[i] = "fail") => Len(backendLog) = 3

\* the text the backend gave in the call c: the subprocess' output, or the
\* parts of the API's response
BackendText(c) == IF receiver.client THEN JoinParts(c.resp.parts) ELSE c.out

\* the pieces of the backends' texts; v is a non-empty Go string that neither
\* begins nor ends with white space: the characters of such a piece
SubTexts ==
    UNION {{SubSeq(t, i, j) : i \in 1..Len(t), j \in 1..Len(t)} :
           t \in Outputs \cup {JoinParts(r.parts) : r \in Responses}}
IsTrimmedText(v) ==
    \E t \in SubTexts :
        /\ t # << >>
        /\ String(t) = v
        /\ t[1] \notin Whitespace
        /\ t[Len(t)] \notin Whitespace

\* C12: every return of Generate is either a non-empty string with no leading
\* or trailing white space and a nil error, or the empty string and a non-nil
\* error; a backend output that is empty or all white space is never returned
\* as a success.
C12_TrimmedOrError ==
    gpc = "done" =>
        /\ \/ genRet.err = NilErr /\ IsTrimmedText(genRet.val)
           \/ genRet.err # NilErr /\ genRet.val = ""
        /\ genRet.err = NilErr =>
              \E i \in 1..Len(BackendText(call)) : BackendText(call)[i] \notin Whitespace

\* C12 witness: the backend's text began with white space and Generate returned
\* the answer without it.
C12_Witness ==
    /\ gpc = "done"
    /\ genRet = [val |-> "ls -l", err |-> NilErr]
    /\ BackendText(call) # << >>
    /\ Head(BackendText(call)) \in Whitespace


(***************************************************************************)
(* Properties of the configuration resolver                                *)
(***************************************************************************)
\* C13: ResolveProviderConfig(name) resolves Provider and Model independently:
\* each field is the value of the key commands.<name>.<field> when that key is
\* set, and otherwise the value of the global key, whatever the keys of the
\* other field are.
C13_FieldsResolvedIndependently ==
    cpc # "start" =>
        /\ resolved.Provider =
              IF viper[CommandKey(commandName, "provider")].set
              THEN viper[CommandKey(commandName, "provider")].val
              ELSE IF viper["provider"].set THEN viper["provider"].val ELSE ""
        /\ resolved.Model =
              IF viper[CommandKey(commandName, "model")].set
              THEN viper[CommandKey(commandName, "model")].val
              ELSE IF viper["model"].set THEN viper["model"].val ELSE ""

\* C13 witness: the provider came from the command's key and the model from
\* the global key.
C13_Witness ==
    /\ cpc = "resolved"
    /\ viper[CommandKey(commandName, "provider")] = SetTo("gemini")
    /\ viper["provider"] = SetTo("claude")
    /\ ~viper[CommandKey(commandName, "model")].set
    /\ viper["model"] = SetTo("sonnet")
    /\ resolved = [Provider |-> "gemini", Model |-> "sonnet"]

\* C14: ApplyFlags sets each field to its flag when the flag is not empty and
\* leaves the field as it was resolved when the flag is empty; with both flags
\* empty nothing changes, and no field that was not empty becomes empty.
C14_FlagsOverrideWhenGiven ==
    cpc = "applied" =>
        /\ providerFlag # "" => cfg.Provider = providerFlag
        /\ providerFlag = "" => cfg.Provider = resolved.Provider
        /\ modelFlag # "" => cfg.Model = modelFlag
        /\ modelFlag = "" => cfg.Model = resolved.Model
        /\ (providerFlag = "" /\ modelFlag = "") => cfg = resolved
        /\ resolved.Provider # "" => cfg.Provider # ""
        /\ resolved.Model # "" => cfg.Model # ""

\* C14 witness: ApplyFlags("", "opus") on the resolved {claude, sonnet} gave
\* {claude, opus}.
C14_Witness ==
    /\ cpc = "applied"
    /\ resolved = [Provider |-> "claude", Model |-> "sonnet"]
    /\ providerFlag = ""
    /\ modelFlag = "opus"
    /\ cfg = [Provider |-> "claude", Model |-> "opus"]

\* the layer a field's final value is taken from: the flag if it is not empty,
\* else the command's key if it is set, else the global key
LayerValue(flag, field) ==
    IF flag # "" THEN flag
    ELSE IF viper[CommandKey(commandName, field)].set
    THEN viper[CommandKey(commandName, field)].val
    ELSE IF viper[field].set THEN viper[field].val ELSE ""

\* C15: after ResolveProviderConfig(name) and ApplyFlags, each of Provider and
\* Model is the flag's value if the flag is not empty, else the value of the
\* command's key if that key is set, else the value of the global key.
C15_ThreeLayerPrecedence ==
    cpc = "applied" =>
        /\ cfg.Provider = LayerValue(providerFlag, "provider")
        /\ cfg.Model = LayerValue(modelFlag, "model")

\* C15 witness: with all three layers giving a model, the flag's was used; with
\* no provider flag, the command's provider was used, not the global one.
C15_Witness ==
    /\ cpc = "applied"
    /\ modelFlag = "opus"
    /\ viper[CommandKey(commandName, "model")] = SetTo("")
    /\ viper["model"] = SetTo("sonnet")
    /\ providerFlag = ""
    /\ viper[CommandKey(commandName, "provider")] = SetTo("gemini")
    /\ viper["provider"] = SetTo("claude")
    /\ cfg = [Provider |-> "gemini", Model |-> "opus"]


(***************************************************************************)
(* Properties of interactive sessions                                      *)
(***************************************************************************)
\* C16: IsInteractive() returns the boolean the injected terminal check returns
\* for the recorded descriptor, and false when no check was injected.
C16_IsInteractiveIsInjectedCheck ==
    checks # << >> =>
        /\ checks[1].check = "IsInteractive"
        /\ streams.isTerminalFunc = NilFunc => ~checks[1].ok
        /\ streams.isTerminalFunc # NilFunc =>
              checks[1].ok = streams.isTerminalFunc[streams.stdinFd]

\* C16 witness: the injected check says descriptor 1 is a terminal and
\* descriptor 0 is not; the recorded descriptor is 1 and IsInteractive returned true.
C16_Witness ==
    /\ checks # << >>
    /\ streams.isTerminalFunc # NilFunc
    /\ streams.stdinFd = 1
    /\ streams.isTerminalFunc[1]
    /\ ~streams.isTerminalFunc[0]
    /\ checks[1].ok

\* C17: LaunchClaudeCode calls the provider's RunInteractive only after
\* streams.IsInteractive() returned true and the provider passed the
\* InteractiveProvider check; if either check fails it returns an error and the
\* provider is not called at all.
C17_RunOnlyAfterBothChecks ==
    /\ received # << >> =>
          checks = << [check |-> "IsInteractive", ok |-> TRUE],
                      [check |-> "InteractiveProvider", ok |-> TRUE] >>
    /\ (/\ lpc = "done"
        /\ \/ streams.isTerminalFunc = NilFunc
           \/ ~streams.isTerminalFunc[streams.stdinFd]
           \/ launched = "basicProviderWrapper") =>
          /\ launchErr # NilErr
          /\ received = << >>

\* C17 witness: the streams are interactive, the provider has no RunInteractive,
\* and LaunchClaudeCode returned an error without calling it.
C17_Witness ==
    /\ lpc = "done"
    /\ checks = << [check |-> "IsInteractive", ok |-> TRUE],
                   [check |-> "InteractiveProvider", ok |-> FALSE] >>
    /\ launched = "basicProviderWrapper"
    /\ launchErr # NilErr
    /\ received = << >>

\* C18: the provider reached through the capability check receives the very
\* IOStreams and the prompt its caller passed, and a provider without
\* RunInteractive fails the check every time it is made.
C18_ArgumentsPassedThrough ==
    /\ \A i \in 1..Len(received) :
          /\ received[i].streams = streams
          /\ received[i].prompt = Prompt(session)
    /\ \A i \in 1..Len(checks) :
          checks[i].check = "InteractiveProvider" =>
              checks[i].ok = (launched \in {"mockInteractiveProvider", "gemini.Provider"})

\* C18 witness: the mock provider was called once, with the caller's streams
\* over buffers, and the session ended without error.
C18_Witness ==
    /\ lpc = "done"
    /\ launched = "mockInteractiveProvider"
    /\ Len(received) = 1
    /\ received[1].streams = streams
    /\ streams.In = "in"
    /\ received[1].prompt.batchInfo = << 1, 3 >>
    /\ launchErr = NilErr

CacheReaders == {g \in Goroutines : pc[g] \in {"L31", "L40"}}
CacheWriters == {g \in Goroutines : pc[g] = "L61"}

\* C21: the cache is written only by the goroutine that holds the exclusive
\* lock, with no reader inside, and read only by a goroutine that holds the read
\* lock or the exclusive lock; so no goroutine reads or writes the cache while
\* another one is writing it.
C21_CacheAccessUnderLock ==
    /\ \A g \in Goroutines :
          /\ pc[g] = "L61" => (writer = g /\ readers = {})
          /\ pc[g] = "L31" => (g \in readers /\ writer = 0)
          /\ pc[g] = "L40" => (writer = g /\ readers = {})
    /\ \A g \in CacheWriters : (CacheReaders \cup CacheWriters) \ {g} = {}

\* C21 witness: one goroutine is about to write the cache under the exclusive
\* lock while another one, which missed on the fast path, waits for that lock.
C21_Witness ==
    \E g, h \in Goroutines :
        /\ pc[g] = "L61"
        /\ writer = g
        /\ pc[h] = "L37"
        /\ name[h] = name[g]

(***************************************************************************)
(* The model a provider hands to its backend                               *)
(***************************************************************************)
\* the argument of the last WithModel of the option list os, "" when there is none
LastWithModel(os) == IF os = << >> THEN "" ELSE os[Len(os)]

\* C22: whenever a provider has called its backend, the model it handed over is
\* the argument of the caller's last WithModel when that is non-empty, and the
\* provider's default model (haiku for Claude, gemini-3-flash-preview for Gemini)
\* when no option was given or the last WithModel had the empty string.
C22_ModelHandedToBackend ==
    Len(backendLog) > 0 =>
        call.model = IF LastWithModel(opts) # "" THEN LastWithModel(opts)
                     ELSE IF receiver.name = ProviderClaude THEN "haiku"
                     ELSE "gemini-3-flash-preview"

\* C22 witness: Gemini called its API with the default model although the
\* caller's first option had named one, because the last one was WithModel("").
C22_Witness ==
    /\ Len(backendLog) > 0
    /\ receiver.name = ProviderGemini
    /\ receiver.client
    /\ opts = << "sonnet", "" >>
    /\ call.model = "gemini-3-flash-preview"

(***************************************************************************)
(* Waiting of the retry engine                                             *)
(***************************************************************************)
\* the seconds the engine has blocked in its selects once w of them are over
WaitedAfter(w) == IF w = 0 THEN 0 ELSE IF w = 1 THEN 1 ELSE 3

\* C23: the wait after the first failed attempt is 1 second and the wait after
\* the second is 2 seconds; there is no wait after the third failed attempt; the
\* delay doubles after each wait and neither it nor its successor is above 30
\* seconds; the seconds waited in one call never exceed 3, and a call whose
\* three attempts all failed has waited exactly 3.
C23_WaitsOneThenTwoSeconds ==
    /\ waits <= 2
    /\ slept <= 3
    /\ delay <= 30
    /\ \A d \in 1..40 :
          /\ NextDelay(d) <= 30
          /\ d <= 15 => NextDelay(d) = 2 * d
    /\ rpc = "L45" =>
          /\ waits = callCount
          /\ attempt = waits - 1
          /\ delay = waits
          /\ timer <= delay
          /\ slept = WaitedAfter(waits - 1) + (delay - timer)
    /\ rpc # "L45" => slept <= WaitedAfter(waits)
    /\ (rpc # "L45" /\ ctxErr = NilErr) =>
          /\ slept = WaitedAfter(waits)
          /\ delay = IF waits = 0 THEN 1 ELSE IF waits = 1 THEN 2 ELSE 4
    /\ (rpc \in {"L58", "done"} /\ ctxErr = NilErr /\ callCount = 3 /\ fnErr # NilErr) =>
          /\ waits = 2
          /\ slept = 3

\* C23 witness: an uncancelled call whose three attempts failed has returned
\* after two waits that took 3 seconds together.
C23_Witness ==
    /\ rpc = "done"
    /\ ctxErr = NilErr
    /\ callCount = 3
    /\ retErr # NilErr
    /\ waits = 2
    /\ slept = 3

\* C24: which error fn returned makes no difference: an uncancelled call never
\* returns after a failed first or second attempt, whatever the error was, so a
\* call that has returned after n attempts saw n-1 failures, each followed by
\* its wait, and either a success or the third failure at the end.
C24_EveryErrorRetriedAlike ==
    /\ (ctxErr = NilErr /\ rpc \in {"L44", "L45", "L30", "L32", "L36", "fn"}) =>
          \A k \in 1..Len(fnLog) : fnLog[k].err # NilErr
    /\ ReturnedUncancelled =>
          /\ Len(fnLog) = callCount
          /\ callCount \in 1..3
          /\ \A k \in 1..(callCount - 1) : fnLog[k].err # NilErr
          /\ callCount < 3 => fnLog[callCount].err = NilErr
          /\ waits = callCount - 1
          /\ slept = WaitedAfter(callCount - 1)

\* C24 witness: an authentication failure, then a malformed request, then a
\* network error: each was retried, and the call returned after three attempts
\* and two waits.
C24_Witness ==
    /\ ReturnedUncancelled
    /\ Len(fnLog) = 3
    /\ IsProviderError(fnLog[1].err)
    /\ fnLog[2].err = ErrorString("malformed request")
    /\ fnLog[3].err = ErrorString("network error")
    /\ waits = 2

(***************************************************************************)
(* Properties of Gemini's RunInteractive                                    *)
(***************************************************************************)
\* C25: Gemini's RunInteractive never looks at terminal-ness or at the
\* process' standard streams: whether it builds and runs its command depends on
\* the CLI path alone, the command's Stdin, Stdout and Stderr are the In, Out
\* and ErrOut it was handed, also when IsInteractive() is false for them, and
\* it never returns the error of a terminal check.
C25_StreamsTrustedBlindly ==
    /\ (cmd # NoCmd) <=> (cliPath /\ ipc \in {"L200", "done"})
    /\ cmd # NoCmd =>
          /\ cmd.Stdin = runArgs.streams.In
          /\ cmd.Stdout = runArgs.streams.Out
          /\ cmd.Stderr = runArgs.streams.ErrOut
    /\ runArgs.streams.In = "in" =>
          (cmd.Stdin # "os.Stdin" /\ cmd.Stdout # "os.Stdout" /\ cmd.Stderr # "os.Stderr")
    /\ (ipc = "done" /\ ~cliPath) =>
          interactiveErr = ErrorString("gemini CLI not available for interactive mode")
    /\ (ipc = "done" /\ cliPath) =>
          interactiveErr \in {NilErr} \cup
              {WrapError("gemini CLI interactive mode failed", e) : e \in ExecErrors}

\* C25 witness: handed buffers whose terminal check says no, RunInteractive ran
\* its command on them to the end.
C25_Witness ==
    /\ ipc = "done"
    /\ runArgs.streams.isTerminalFunc # NilFunc
    /\ ~runArgs.streams.isTerminalFunc[runArgs.streams.stdinFd]
    /\ runArgs.streams.In = "in"
    /\ cmd.Stdin = "in"
    /\ cmd.Stdout = "out"
    /\ cmd.Stderr = "errOut"
    /\ interactiveErr = NilErr

(***************************************************************************)
(* Properties of the session loop of ProcessReviews                         *)
(***************************************************************************)
\* the sessions that have ended with an error, in order
RECURSIVE FailedSessions(_)
FailedSessions(log) ==
    IF log = << >> THEN << >>
    ELSE LET rest == FailedSessions(SubSeq(log, 1, Len(log) - 1))
             last == log[Len(log)]
         IN  IF last.ev = "return" /\ last.err # NilErr
             THEN Append(rest, [index |-> last.currentIndex, err |-> last.err])
             ELSE rest

\* C26: LaunchClaudeCode is called for the files in list order, the k-th call
\* only after the (k-1)-th returned; every session that returned an error is
\* reported, the loop goes on after it, and ProcessReviews returns nil only
\* after a session was run for the last file.
C26_SessionsOneAfterAnother ==
    /\ \A k \in 1..Len(sessionLog) :
          /\ sessionLog[k].ev = (IF k % 2 = 1 THEN "call" ELSE "return")
          /\ sessionLog[k].currentIndex = (k + 1) \div 2
          /\ sessionLog[k].feedbackFile = filteredFiles[(k + 1) \div 2]
          /\ sessionLog[k].totalCount = Len(filteredFiles)
    /\ Len(sessionLog) <= 2 * Len(filteredFiles)
    /\ printed = FailedSessions(sessionLog)
    /\ processRet.err = NilErr
    /\ processRet.returned <=> ppc = "done"
    /\ ppc \in {"L105", "done"} => Len(sessionLog) = 2 * Len(filteredFiles)

\* C26 witness: of three sessions the first and the second failed, both were
\* reported, the third was run all the same and ProcessReviews returned nil.
C26_Witness ==
    /\ ppc = "done"
    /\ processRet = [returned |-> TRUE, err |-> NilErr]
    /\ Len(filteredFiles) = 3
    /\ Len(sessionLog) = 6
    /\ sessionLog[2].err # NilErr
    /\ sessionLog[4].err # NilErr
    /\ sessionLog[6].err = NilErr
    /\ Len(printed) = 2

(***************************************************************************)
(* Frame of the configuration resolver                                      *)
(***************************************************************************)
\* C27: no step writes a configuration key, the resolver's result stays what it
\* was while the flags are applied, and a call of the resolver made at any later
\* moment returns what the first call returned; when no key of a field is set
\* the field is resolved to "" whatever the flags are.
C27_ResolverOnlyReads ==
    /\ [](cpc # "start" =>
            /\ resolved = ResolveProviderConfig(viper, commandName)
            /\ (\A k \in ProviderKeys : ~viper[k].set) => resolved.Provider = ""
            /\ (\A k \in ModelKeys : ~viper[k].set) => resolved.Model = "")
    /\ [][/\ viper' = viper
          /\ cpc # "start" => resolved' = resolved]_vars

\* C27 witness: with both flags given and no key set, the resolver returned an
\* empty configuration and the flags were applied to a copy of it afterwards.
C27_Witness ==
    /\ cpc = "applied"
    /\ providerFlag = "gemini"
    /\ modelFlag = "opus"
    /\ \A k \in ConfigKeys : ~viper[k].set
    /\ resolved = [Provider |-> "", Model |-> ""]
    /\ cfg = [Provider |-> "gemini", Model |-> "opus"]

(***************************************************************************)
(* Properties of resume.Run                                                 *)
(***************************************************************************)
\* the positions in steps of the calls of op
StepsOf(op) == {k \in 1..Len(steps) : steps[k].op = op}

\* the sleeps Run makes for its wait: all but the last ten seconds and then
\* those, or one sleep when the wait is not above ten seconds
SleepsDue ==
    IF waitDuration > 10 THEN << waitDuration - 10, 10 >> ELSE << waitDuration >>

\* the title holds the filter when letter case is ignored
FilterFound ==
    /\ windowTitle = << "T", "e", "r", "m" >>
    /\ windowFilter \in {<< "t", "E" >>, << "r", "m" >>}

\* C28: the message is typed only after every sleep due has returned nil and,
\* with a window filter, after the title was read and holds the filter
\* whatever the letter case (without a filter the title is never read); Enter
\* is pressed only right after the message was typed without error; a call that
\* fails is the last one made and Run returns an error after it, as it does
\* when the title does not hold the filter; Run returns nil only after Enter.
C28_TypesOnlyAfterWaitAndFilter ==
    /\ \A k \in StepsOf("TypeString") :
          /\ \A j \in 1..(k - 1) : steps[j].err = NilErr
          /\ Len(SleepsDue) < k
          /\ \A j \in 1..Len(SleepsDue) :
                steps[j].op = "Sleep" /\ steps[j].d = SleepsDue[j]
          /\ IF windowFilter # << >>
             THEN /\ k = Len(SleepsDue) + 2
                  /\ steps[k - 1].op = "GetActiveWindowTitle"
                  /\ FilterFound
             ELSE k = Len(SleepsDue) + 1
    /\ windowFilter = << >> => StepsOf("GetActiveWindowTitle") = {}
    /\ \A k \in StepsOf("GetActiveWindowTitle") :
          \A j \in 1..(k - 1) : steps[j].op = "Sleep" /\ steps[j].err = NilErr
    /\ \A k \in StepsOf("PressEnter") :
          k > 1 /\ steps[k - 1].op = "TypeString" /\ steps[k - 1].err = NilErr
    /\ \A k \in 1..Len(steps) :
          steps[k].err # NilErr =>
              (k = Len(steps) /\ resumeRet.returned /\ resumeRet.err # NilErr)
    /\ (resumeRet.returned /\ steps # << >>
           /\ steps[Len(steps)].op = "GetActiveWindowTitle"
           /\ steps[Len(steps)].err = NilErr) =>
          (~FilterFound /\ resumeRet.err # NilErr)
    /\ (resumeRet.returned /\ resumeRet.err = NilErr) =>
          (steps # << >> /\ steps[Len(steps)].op = "PressEnter")
    /\ resumeRet.returned <=> upc = "done"

\* C28 witness: after a wait of thirty seconds in two sleeps the title "Term"
\* was found to hold the filter "tE", the message was typed and Enter pressed.
C28_Witness ==
    /\ resumeRet = [returned |-> TRUE, err |-> NilErr]
    /\ waitDuration = 30
    /\ windowFilter = << "t", "E" >>
    /\ Len(steps) = 5
    /\ steps[1] = Step("Sleep", 20, NilErr)
    /\ steps[2] = Step("Sleep", 10, NilErr)
    /\ steps[3].op = "GetActiveWindowTitle"
    /\ steps[4].op = "TypeString"
    /\ steps[5].op = "PressEnter"

(***************************************************************************)
(* Permanence of the cache and release of the locks                         *)
(***************************************************************************)
\* C29: once a call for a name has returned an instance, the cache maps the
\* name to that instance in every later state, and a call for the name that is
\* in progress has run no constructor and is about to return that instance with
\* a nil error when it reaches a return statement, whatever has happened to the
\* backend or the API key since.
C29_CacheEntriesPermanent ==
    \A r \in returned :
        /\ cache[r[1]] = r[2]
        /\ r[2] \notin {NilProvider, NilPointer}
        /\ \A g \in Goroutines :
              name[g] = r[1] =>
                  /\ ~ranCtor[g]
                  /\ pc[g] \notin {"L47", "L57", "L61"}
                  /\ pc[g] = "L32" => provider[g] = r[2]
                  /\ pc[g] = "defer" => ret[g] = [prov |-> r[2], err |-> NilErr]

\* C29 witness: after the backend of a name was taken away, a call for the name
\* found on the fast path the instance an earlier call had returned.
C29_Witness ==
    \E g \in Goroutines :
        /\ pc[g] = "L32"
        /\ << name[g], provider[g] >> \in returned
        /\ envChanges > 0
        /\ ~Available(name[g], env)

\* a step of the call of goroutine g that is in progress
Proceed(g) ==
    \/ RLock(g)
    \/ FastCheck(g)
    \/ FastReturn(g)
    \/ RUnlock(g)
    \/ Lock(g)
    \/ Recheck(g)
    \/ Construct(g)
    \/ CheckErr(g)
    \/ Store(g)
    \/ DeferredUnlock(g)

\* C30: a goroutine holds the read lock only between lines 30 and 35 and the
\* exclusive lock only between line 37 and its return, so a goroutine that is
\* not inside GetProvider, or waits for a lock, holds none; and whenever calls
\* are in progress one of them can take a step, so they all return.
C30_ReturnsWithoutLock ==
    /\ \A g \in Goroutines :
          /\ g \in readers <=> pc[g] \in {"L31", "L32", "L35"}
          /\ writer = g <=> pc[g] \in {"L40", "L47", "L57", "L61", "defer"}
    /\ writer \in Goroutines \cup {0}
    /\ (\A g \in Goroutines : pc[g] = "idle") => (readers = {} /\ writer = 0)
    /\ (\E g \in Goroutines : pc[g] # "idle") =>
          \E g \in Goroutines : pc[g] # "idle" /\ ENABLED Proceed(g)

\* C30 witness: calls have returned on the path of constructor failure and on
\* the path of an unknown name, and no goroutine holds a lock.
C30_Witness ==
    /\ \A g \in Goroutines : pc[g] = "idle"
    /\ readers = {}
    /\ writer = 0
    /\ failed # {}
    /\ result.name = "unknown"
    /\ result.err # NilErr

=============================================================================
